---- MODULE Spec2Model ----
(***************************************************************************)
(* Esp32Radio: the streaming engine of src/unnamed/part_000.               *)
(*                                                                         *)
(* Threads: one controller (the thread that calls StartStreaming,          *)
(* StopStreaming and the destructor), one downloader                       *)
(* (DownloadAudioStream) and the decoder threads (PlayAudioStream).  A     *)
(* decoder that StopStreaming detached keeps running beside the decoder of *)
(* the next session, so decoders live in slots.                            *)
(*                                                                         *)
(* buffer_mutex_ : every critical section is one action.                   *)
(* buffer_cv_    : the set of threads blocked in wait(); a thread at a     *)
(*                 wait position that is not in the set re-evaluates its   *)
(*                 predicate on its next step.                             *)
(*                                                                         *)
(* Sizes are counted in units of 2048 bytes: a read of 4096 bytes is 2.    *)
(***************************************************************************)
EXTENDS Integers, Sequences, FiniteSets, TLC

----------------------------------------------------------------------------
(* Bounds of the model *)

\* chunks the downloader allocates over the whole run
MaxChunks == 2
\* chunks of the one stream that is long enough to fill the queue
MaxPushChunks == 3
\* calls of StartStreaming over the whole run
MaxStarts == 2
\* sessions that Download starts over the whole run
MaxDownloadSessions == 1
\* esp32_radio.h (not among the sources) configures the two buffer limits;
\* the model takes small values with MIN_BUFFER_SIZE <= MAX_BUFFER_SIZE
MAX_BUFFER_SIZE == 3
MIN_BUFFER_SIZE == 2

(* Program constants, in units of 2048 bytes *)

\* a read buffer larger than half the decoder's working buffer
OversizedChunk == MAX_BUFFER_SIZE + 1

\* const size_t chunk_size = 4096
chunk_size == 2
\* heap_caps_malloc(8192, ...): the decoder's working buffer
mp3_input_buffer_size == 4
\* if (bytes_left < 4096)
fill_threshold == 2

----------------------------------------------------------------------------
VARIABLES
    is_downloading_,   \* std::atomic<bool>
    is_playing_,       \* std::atomic<bool>
    audio_buffer_,     \* std::queue<AudioChunk>
    buffer_size_,      \* running byte total
    buffer_cv_,        \* threads blocked in buffer_cv_.wait
    download_thread_,  \* download_thread_.joinable()
    play_thread_,      \* decoder slot play_thread_ refers to, 0: not joinable
    dl,                \* the downloader: position and the chunk in hand
    play,              \* the decoders: position and locals, per slot
    ctl_pc,            \* the controller's position
    device_state,      \* Application::GetDeviceState()
    next_chunk,        \* identity of the next chunk heap_caps_malloc returns
    frees,             \* per chunk: calls of heap_caps_free on its data
    pops,              \* per chunk: times it was taken from audio_buffer_
    starts,            \* calls of StartStreaming so far
    current_song_name_,    \* std::string: "" or the name Download was given
    song_name_displayed_,  \* bool
    music_info,            \* the text of the last display->SetMusicInfo
    response,          \* Download: the HTTP response being handled
    returned,          \* the last API call that returned, "none" during a call
    caller,            \* who called StartStreaming: "api" or "download"
    wait_count,        \* StopStreaming: the polls of the decoder made so far
    lyric_resolved,    \* Download resolved a lyric URL for the running session
    display_mode_,         \* std::atomic<DisplayMode>
    is_lyric_running_,     \* std::atomic<bool>
    lyric_thread_,         \* the lyric thread's position, "none": not joinable
    lyrics_,               \* std::vector<std::pair<int, std::string>>
    current_lyric_index_,  \* std::atomic<int>
    current_play_time_ms_, \* int64_t
    lyric_hist,        \* the results of the session's last two scans
    chat_message,      \* the last SetChatMessage("lyric", text) of the display
    fn                 \* a call of a helper function: name, argument, result

\* the streaming engine
streamvars == <<is_downloading_, is_playing_, audio_buffer_, buffer_size_,
                buffer_cv_, download_thread_, play_thread_, dl, play, ctl_pc,
                device_state, next_chunk, frees, pops, starts>>
\* the title shown on the display
titlevars == <<current_song_name_, song_name_displayed_, music_info>>
\* the lyric engine
lyricvars == <<display_mode_, is_lyric_running_, lyric_thread_, lyrics_,
               current_lyric_index_, current_play_time_ms_, lyric_hist,
               chat_message>>

vars == <<is_downloading_, is_playing_, audio_buffer_, buffer_size_, buffer_cv_,
          download_thread_, play_thread_, dl, play, ctl_pc, device_state,
          next_chunk, frees, pops, starts, titlevars, response, returned,
          caller, wait_count, lyric_resolved, lyricvars, fn>>

\* decoder thread slots: every StartStreaming creates one decoder thread
Decoders == 1..MaxStarts
ChunkIds == 1..MaxPushChunks
\* thread identity of the downloader in buffer_cv_
DL == 0

kDeviceStateIdle == "idle"
kDeviceStateListening == "listening"
kDeviceStateSpeaking == "speaking"
kDeviceStateConnecting == "connecting"
DeviceState == {kDeviceStateIdle, kDeviceStateListening, kDeviceStateSpeaking,
                kDeviceStateConnecting}

\* AudioChunk(): data(nullptr), size(0)
NoChunk == [id |-> 0, size |-> 0]
AudioChunk(i, s) == [id |-> i, size |-> s]

Min(a, b) == IF a < b THEN a ELSE b

\* count capped at 2: "more than once" is all that is observed
Bump(f, i) == [f EXCEPT ![i] = Min(f[i] + 1, 2)]

\* a front() that returns the newest chunk
QueueBack(q) == q[Len(q)]
\* a pop() that removes nothing
QueueKeep(q) == q

\* audio_buffer_.front() and audio_buffer_.pop()
QueueFront(q) == Head(q)
QueuePop(q) == Tail(q)

\* a pop that forgets buffer_size_ -= chunk.size
SizeAfterPopStale(c) == buffer_size_

\* buffer_size_ += bytes_read;  buffer_size_ -= chunk.size
SizeAfterPush(c) == buffer_size_ + c.size
SizeAfterPop(c) == buffer_size_ - c.size

\* buffer_cv_.notify_one() wakes one waiter, if there is one
NotifyOne(after) ==
    \/ buffer_cv_ = {} /\ after = {}
    \/ \E t \in buffer_cv_ : after = buffer_cv_ \ {t}

RECURSIVE SumSizes(_)
SumSizes(q) == IF q = <<>> THEN 0 ELSE Head(q).size + SumSizes(Tail(q))

\* a decoder slot with no thread, or whose thread has returned
Terminated(d) == play[d].pc \in {"none", "done"}

\* Download: no response is being handled
NoResponse == [open |-> FALSE, status |-> 0, body |-> "none"]

\* a decoder's locals outside the playback loop
IdlePlay == [pc |-> "none", chunk |-> NoChunk, bytes_left |-> 0,
             id3_processed |-> FALSE, current_state |-> kDeviceStateIdle]

\* the constructor: flags, threads and buffer
StreamInit ==
    /\ is_downloading_ = FALSE
    /\ is_playing_ = FALSE
    /\ audio_buffer_ = <<>>
    /\ buffer_size_ = 0
    /\ buffer_cv_ = {}
    /\ download_thread_ = FALSE
    /\ play_thread_ = 0
    /\ dl = [pc |-> "none", chunk |-> NoChunk]
    /\ play = [d \in Decoders |-> IdlePlay]
    /\ ctl_pc = "idle"
    /\ device_state = kDeviceStateIdle
    /\ next_chunk = 1
    /\ frees = [c \in ChunkIds |-> 0]
    /\ pops = [c \in ChunkIds |-> 0]
    /\ starts = 0
    /\ response = NoResponse
    /\ returned = "none"
    /\ caller = "api"
    /\ wait_count = 0
    /\ lyric_resolved = FALSE

DISPLAY_MODE_SPECTRUM == "spectrum"
DISPLAY_MODE_LYRICS == "lyrics"

\* the constructor: title and lyric members
TitleInit ==
    /\ current_song_name_ = ""
    /\ song_name_displayed_ = FALSE
    /\ music_info = ""

\* nothing has been sent to the display; calls counts the SetChatMessage
\* calls modulo 2
NoChatMessage == [text |-> <<>>, calls |-> 0]

LyricInit ==
    /\ display_mode_ = DISPLAY_MODE_LYRICS
    /\ is_lyric_running_ = FALSE
    /\ lyric_thread_ = "none"
    /\ lyrics_ = <<>>
    /\ current_lyric_index_ = -1
    /\ current_play_time_ms_ = 0
    /\ lyric_hist = <<-1, -1>>
    /\ chat_message = NoChatMessage

\* no helper function is being called
NoCall == [name |-> "none"]

Init == StreamInit /\ TitleInit /\ LyricInit /\ fn = NoCall

----------------------------------------------------------------------------
(* DownloadAudioStream *)

\* URL check, http->Open, status check: any failure clears the flag and returns
DlOpen ==
    /\ dl.pc = "open"
    /\ \/ /\ is_downloading_' = FALSE
          /\ dl' = [dl EXCEPT !.pc = "done"]
       \/ /\ dl' = [dl EXCEPT !.pc = "loop"]
          /\ UNCHANGED is_downloading_
    /\ UNCHANGED <<is_playing_, audio_buffer_, buffer_size_, buffer_cv_,
                   download_thread_, play_thread_, play, ctl_pc, device_state,
                   next_chunk, frees, pops, starts>>
    /\ UNCHANGED <<titlevars, response, returned, caller, wait_count, lyric_resolved, lyricvars, fn>>

\* while (is_downloading_ && is_playing_)
DlLoop ==
    /\ dl.pc = "loop"
    /\ dl' = [dl EXCEPT !.pc = IF is_downloading_ /\ is_playing_
                                  THEN "read" ELSE "close"]
    /\ UNCHANGED <<is_downloading_, is_playing_, audio_buffer_, buffer_size_,
                   buffer_cv_, download_thread_, play_thread_, play, ctl_pc,
                   device_state, next_chunk, frees, pops, starts>>
    /\ UNCHANGED <<titlevars, response, returned, caller, wait_count, lyric_resolved, lyricvars, fn>>

\* http->Read, then heap_caps_malloc and memcpy of the bytes read; the stream
\* holds at most last_chunk chunks
DlReadUpTo(last_chunk) ==
    /\ dl.pc = "read"
    /\ \/ \* bytes_read < 0, bytes_read == 0, or the allocation failed
          /\ dl' = [dl EXCEPT !.pc = "close"]
          /\ UNCHANGED next_chunk
       \/ \E bytes_read \in 1..chunk_size :
          /\ next_chunk <= last_chunk
          /\ dl' = [pc |-> "push", chunk |-> AudioChunk(next_chunk, bytes_read)]
          /\ next_chunk' = next_chunk + 1
    /\ UNCHANGED <<is_downloading_, is_playing_, audio_buffer_, buffer_size_,
                   buffer_cv_, download_thread_, play_thread_, play, ctl_pc,
                   device_state, frees, pops, starts>>
    /\ UNCHANGED <<titlevars, response, returned, caller, wait_count, lyric_resolved, lyricvars, fn>>

DlRead == DlReadUpTo(MaxChunks)

\* a predicate that looks at the byte total only
PushPredicateIgnoresFlag == buffer_size_ < MAX_BUFFER_SIZE

\* the wait's predicate: buffer_size_ < MAX_BUFFER_SIZE || !is_downloading_
PushPredicate == buffer_size_ < MAX_BUFFER_SIZE \/ ~is_downloading_

\* the critical section that enqueues the chunk, or frees it when cancelled
DlPush ==
    /\ dl.pc = "push"
    /\ DL \notin buffer_cv_
    /\ IF ~PushPredicate
       THEN /\ buffer_cv_' = buffer_cv_ \cup {DL}
            /\ UNCHANGED <<audio_buffer_, buffer_size_, dl, frees>>
       ELSE IF is_downloading_
       THEN /\ audio_buffer_' = Append(audio_buffer_, dl.chunk)
            /\ buffer_size_' = SizeAfterPush(dl.chunk)
            /\ dl' = [pc |-> "loop", chunk |-> NoChunk]
            /\ NotifyOne(buffer_cv_')
            /\ UNCHANGED frees
       ELSE /\ frees' = Bump(frees, dl.chunk.id)
            /\ dl' = [pc |-> "close", chunk |-> NoChunk]
            /\ UNCHANGED <<audio_buffer_, buffer_size_, buffer_cv_>>
    /\ UNCHANGED <<is_downloading_, is_playing_, download_thread_, play_thread_,
                   play, ctl_pc, device_state, next_chunk, pops, starts>>
    /\ UNCHANGED <<titlevars, response, returned, caller, wait_count, lyric_resolved, lyricvars, fn>>

\* http->Close(); is_downloading_ = false; notify_all
DlClose ==
    /\ dl.pc = "close"
    /\ is_downloading_' = FALSE
    /\ buffer_cv_' = {}
    /\ dl' = [dl EXCEPT !.pc = "done"]
    /\ UNCHANGED <<is_playing_, audio_buffer_, buffer_size_, download_thread_,
                   play_thread_, play, ctl_pc, device_state, next_chunk, frees,
                   pops, starts>>
    /\ UNCHANGED <<titlevars, response, returned, caller, wait_count, lyric_resolved, lyricvars, fn>>

----------------------------------------------------------------------------
(* PlayAudioStream *)

\* codec missing or output disabled, or mp3_decoder_initialized_ false:
\* is_playing_ = false and return
PlayInit(d) ==
    /\ play[d].pc = "init"
    /\ \/ /\ is_playing_' = FALSE
          /\ play' = [play EXCEPT ![d] = [IdlePlay EXCEPT !.pc = "done"]]
       \/ /\ play' = [play EXCEPT ![d].pc = "prebuf"]
          /\ UNCHANGED is_playing_
    /\ UNCHANGED <<is_downloading_, audio_buffer_, buffer_size_, buffer_cv_,
                   download_thread_, play_thread_, dl, ctl_pc, device_state,
                   next_chunk, frees, pops, starts>>
    /\ UNCHANGED <<titlevars, response, returned, caller, wait_count, lyric_resolved, lyricvars, fn>>

\* buffer_size_ >= MIN_BUFFER_SIZE || (!is_downloading_ && !audio_buffer_.empty())
PrebufferPredicate ==
    buffer_size_ >= MIN_BUFFER_SIZE \/ (~is_downloading_ /\ audio_buffer_ # <<>>)

\* the wait before playback starts
PlayPrebuffer(d) ==
    /\ play[d].pc = "prebuf"
    /\ d \notin buffer_cv_
    /\ IF PrebufferPredicate
       THEN /\ play' = [play EXCEPT ![d].pc = "alloc"]
            /\ UNCHANGED buffer_cv_
       ELSE /\ buffer_cv_' = buffer_cv_ \cup {d}
            /\ UNCHANGED play
    /\ UNCHANGED <<is_downloading_, is_playing_, audio_buffer_, buffer_size_,
                   download_thread_, play_thread_, dl, ctl_pc, device_state,
                   next_chunk, frees, pops, starts>>
    /\ UNCHANGED <<titlevars, response, returned, caller, wait_count, lyric_resolved, lyricvars, fn>>

\* heap_caps_malloc(8192): on failure is_playing_ = false and return
PlayAlloc(d) ==
    /\ play[d].pc = "alloc"
    /\ \/ /\ is_playing_' = FALSE
          /\ play' = [play EXCEPT ![d] = [IdlePlay EXCEPT !.pc = "done"]]
       \/ /\ play' = [play EXCEPT ![d].pc = "loop"]
          /\ UNCHANGED is_playing_
    /\ UNCHANGED <<is_downloading_, audio_buffer_, buffer_size_, buffer_cv_,
                   download_thread_, play_thread_, dl, ctl_pc, device_state,
                   next_chunk, frees, pops, starts>>
    /\ UNCHANGED <<titlevars, response, returned, caller, wait_count, lyric_resolved, lyricvars, fn>>

\* if (bytes_left < 4096): fill from the queue, else decode at once
FillOrDecode(bytes_left) ==
    IF bytes_left < fill_threshold THEN "pop" ELSE "decode"

\* a gate that keeps polling once the device is idle again
IdleGateKeepsWaiting(current_state, bytes_left) ==
    IF current_state \in {kDeviceStateListening, kDeviceStateSpeaking}
    THEN "gate_toggle"
    ELSE "gate_wait"

\* a gate that asks for the toggle in every busy state
IdleGateTogglesWhenBusy(current_state, bytes_left) ==
    IF current_state # kDeviceStateIdle
    THEN "gate_toggle"
    ELSE FillOrDecode(bytes_left)

\* the idle gate: where the loop iteration goes for an observed device state
IdleGate(current_state, bytes_left) ==
    IF current_state \in {kDeviceStateListening, kDeviceStateSpeaking}
    THEN "gate_toggle"
    ELSE IF current_state # kDeviceStateIdle
    THEN "gate_wait"
    ELSE FillOrDecode(bytes_left)

\* while (is_playing_), then the device state check
PlayLoop(d) ==
    /\ play[d].pc = "loop"
    /\ IF ~is_playing_
       THEN play' = [play EXCEPT ![d].pc = "exit"]
       ELSE LET to == IdleGate(device_state, play[d].bytes_left) IN
            play' = [play EXCEPT ![d].pc = IF to \in {"pop", "decode"}
                                            THEN "title" ELSE to,
                                 ![d].current_state =
                                    IF to \in {"pop", "decode"}
                                    THEN device_state ELSE kDeviceStateIdle]
    /\ UNCHANGED <<is_downloading_, is_playing_, audio_buffer_, buffer_size_,
                   buffer_cv_, download_thread_, play_thread_, dl, ctl_pc,
                   device_state, next_chunk, frees, pops, starts>>
    /\ UNCHANGED <<titlevars, response, returned, caller, wait_count, lyric_resolved, lyricvars, fn>>

\* the text SetMusicInfo gets for a song name
ShownTitle(name) == "<<" \o name \o ">> playing"

\* the gate was passed: show the song name once, then fill or decode
PlayTitle(d) ==
    /\ play[d].pc = "title"
    /\ IF ~song_name_displayed_ /\ current_song_name_ # ""
       THEN /\ music_info' = ShownTitle(current_song_name_)
            /\ song_name_displayed_' = TRUE
       ELSE UNCHANGED <<music_info, song_name_displayed_>>
    /\ play' = [play EXCEPT ![d].pc = FillOrDecode(play[d].bytes_left)]
    /\ UNCHANGED <<is_downloading_, is_playing_, audio_buffer_, buffer_size_,
                   buffer_cv_, download_thread_, play_thread_, dl, ctl_pc,
                   device_state, next_chunk, frees, pops, starts,
                   current_song_name_, response, returned, caller, wait_count, lyric_resolved, lyricvars,
                   fn>>

\* vTaskDelay(300) after ToggleChatState, or vTaskDelay(50); continue
PlayGateWait(d) ==
    /\ play[d].pc \in {"gate_toggle", "gate_wait"}
    /\ play' = [play EXCEPT ![d].pc = "loop"]
    /\ UNCHANGED <<is_downloading_, is_playing_, audio_buffer_, buffer_size_,
                   buffer_cv_, download_thread_, play_thread_, dl, ctl_pc,
                   device_state, next_chunk, frees, pops, starts>>
    /\ UNCHANGED <<titlevars, response, returned, caller, wait_count, lyric_resolved, lyricvars, fn>>

\* chunk = front(); pop(); buffer_size_ -= chunk.size; notify_one()
TakeChunk(d) ==
    LET chunk == QueueFront(audio_buffer_) IN
    /\ audio_buffer_' = QueuePop(audio_buffer_)
    /\ buffer_size_' = SizeAfterPop(chunk)
    /\ pops' = Bump(pops, chunk.id)
    /\ NotifyOne(buffer_cv_')
    /\ play' = [play EXCEPT ![d].pc = "copy", ![d].chunk = chunk]

\* the critical section of the fill step, up to the wait
PlayPop(d) ==
    /\ play[d].pc = "pop"
    /\ IF audio_buffer_ = <<>>
       THEN /\ IF ~is_downloading_
               THEN /\ play' = [play EXCEPT ![d].pc = "exit"]
                    /\ UNCHANGED buffer_cv_
               ELSE /\ play' = [play EXCEPT ![d].pc = "pop_wait"]
                    /\ buffer_cv_' = buffer_cv_ \cup {d}
            /\ UNCHANGED <<audio_buffer_, buffer_size_, pops>>
       ELSE TakeChunk(d)
    /\ UNCHANGED <<is_downloading_, is_playing_, download_thread_, play_thread_,
                   dl, ctl_pc, device_state, next_chunk, frees, starts>>
    /\ UNCHANGED <<titlevars, response, returned, caller, wait_count, lyric_resolved, lyricvars, fn>>

\* !audio_buffer_.empty() || !is_downloading_
PopPredicate == audio_buffer_ # <<>> \/ ~is_downloading_

\* woken in the wait for data: re-check, then continue or take the chunk
PlayPopWait(d) ==
    /\ play[d].pc = "pop_wait"
    /\ d \notin buffer_cv_
    /\ IF ~PopPredicate
       THEN /\ buffer_cv_' = buffer_cv_ \cup {d}
            /\ UNCHANGED <<audio_buffer_, buffer_size_, pops, play>>
       ELSE IF audio_buffer_ = <<>>
       THEN /\ play' = [play EXCEPT ![d].pc = "loop",
                                    ![d].current_state = kDeviceStateIdle]
            /\ UNCHANGED <<audio_buffer_, buffer_size_, pops, buffer_cv_>>
       ELSE TakeChunk(d)
    /\ UNCHANGED <<is_downloading_, is_playing_, download_thread_, play_thread_,
                   dl, ctl_pc, device_state, next_chunk, frees, starts>>
    /\ UNCHANGED <<titlevars, response, returned, caller, wait_count, lyric_resolved, lyricvars, fn>>

\* memmove, memcpy of min(chunk.size, 8192 - bytes_left), the ID3 skip on the
\* first fill, heap_caps_free(chunk.data)
PlayCopy(d) ==
    /\ play[d].pc = "copy"
    /\ LET p == play[d]
           copy_size == Min(p.chunk.size, mp3_input_buffer_size - p.bytes_left)
           filled == p.bytes_left + copy_size
       IN  \E id3_skip \in 0..filled :
             /\ p.id3_processed => id3_skip = 0
             /\ play' = [play EXCEPT ![d].pc = "decode",
                                     ![d].chunk = NoChunk,
                                     ![d].bytes_left = filled - id3_skip,
                                     ![d].id3_processed = TRUE]
             /\ frees' = Bump(frees, p.chunk.id)
    /\ UNCHANGED <<is_downloading_, is_playing_, audio_buffer_, buffer_size_,
                   buffer_cv_, download_thread_, play_thread_, dl, ctl_pc,
                   device_state, next_chunk, pops, starts>>
    /\ UNCHANGED <<titlevars, response, returned, caller, wait_count, lyric_resolved, lyricvars, fn>>

\* a recovery that discards the whole window
AfterDecodeErrorDropsWindow(bytes_left) == 0

\* lines 973-978: one byte is skipped
AfterDecodeError(bytes_left) == IF bytes_left > 1 THEN bytes_left - 1 ELSE 0

\* MP3FindSyncWord, the skip to the sync position, MP3Decode and, for a
\* decoded frame, what follows up to, not including, AddAudioData
PlayDecode(d) ==
    /\ play[d].pc = "decode"
    /\ LET p == play[d] IN
       \/ \* sync_offset < 0
          play' = [play EXCEPT ![d].pc = "no_sync",
                               ![d].current_state = kDeviceStateIdle]
       \/ \E sync_offset \in 0..(p.bytes_left - 1) :
            LET at_sync == p.bytes_left - sync_offset IN
            \/ \* decode_result != 0
               play' = [play EXCEPT ![d].pc = "decode_failed",
                                    ![d].bytes_left = at_sync,
                                    ![d].current_state = kDeviceStateIdle]
            \/ \* a frame of frame_bytes decoded
               \E frame_bytes \in 1..at_sync :
                  \/ \* invalid frame info, or no output samples
                     play' = [play EXCEPT ![d].pc = "loop",
                                          ![d].bytes_left = at_sync - frame_bytes,
                                          ![d].current_state = kDeviceStateIdle]
                  \/ play' = [play EXCEPT ![d].pc = "emit",
                                          ![d].bytes_left = at_sync - frame_bytes]
    /\ UNCHANGED <<is_downloading_, is_playing_, audio_buffer_, buffer_size_,
                   buffer_cv_, download_thread_, play_thread_, dl, ctl_pc,
                   device_state, next_chunk, frees, pops, starts>>
    /\ UNCHANGED <<titlevars, response, returned, caller, wait_count, lyric_resolved, lyricvars, fn>>

\* no sync word: bytes_left = 0; continue (856-857).  Decode failure: one
\* byte is skipped and the loop goes on (968-979)
PlayDecodeRecover(d) ==
    /\ play[d].pc \in {"no_sync", "decode_failed"}
    /\ play' = [play EXCEPT ![d].pc = "loop",
                            ![d].bytes_left =
                               IF play[d].pc = "no_sync" THEN 0
                               ELSE AfterDecodeError(play[d].bytes_left)]
    /\ UNCHANGED <<is_downloading_, is_playing_, audio_buffer_, buffer_size_,
                   buffer_cv_, download_thread_, play_thread_, dl, ctl_pc,
                   device_state, next_chunk, frees, pops, starts>>
    /\ UNCHANGED <<titlevars, response, returned, caller, wait_count, lyric_resolved, lyricvars, fn>>

\* app.AddAudioData(std::move(packet))
PlayEmit(d) ==
    /\ play[d].pc = "emit"
    /\ play' = [play EXCEPT ![d].pc = "loop",
                            ![d].current_state = kDeviceStateIdle]
    /\ UNCHANGED <<is_downloading_, is_playing_, audio_buffer_, buffer_size_,
                   buffer_cv_, download_thread_, play_thread_, dl, ctl_pc,
                   device_state, next_chunk, frees, pops, starts>>
    /\ UNCHANGED <<titlevars, response, returned, caller, wait_count, lyric_resolved, lyricvars, fn>>

\* after the loop: free the working buffer, is_playing_ = false, return
PlayExit(d) ==
    /\ play[d].pc = "exit"
    /\ is_playing_' = FALSE
    /\ play' = [play EXCEPT ![d] = [IdlePlay EXCEPT !.pc = "done"]]
    /\ UNCHANGED <<is_downloading_, audio_buffer_, buffer_size_, buffer_cv_,
                   download_thread_, play_thread_, dl, ctl_pc, device_state,
                   next_chunk, frees, pops, starts>>
    /\ UNCHANGED <<titlevars, response, returned, caller, wait_count, lyric_resolved, lyricvars, fn>>

----------------------------------------------------------------------------
(* ClearAudioBuffer *)

\* every queued chunk is freed, the queue is emptied, buffer_size_ = 0
FreedByClear == {audio_buffer_[i].id : i \in 1..Len(audio_buffer_)}

ClearAudioBuffer ==
    /\ frees' = [c \in ChunkIds |->
                    IF c \in FreedByClear THEN Min(frees[c] + 1, 2) ELSE frees[c]]
    /\ audio_buffer_' = <<>>
    /\ buffer_size_' = 0

----------------------------------------------------------------------------
(* StartStreaming *)

\* decoders that run without play_thread_ referring to them
Detached == {d \in Decoders : ~Terminated(d) /\ d # play_thread_}

\* the slot the next decoder thread takes
FreeSlot == CHOOSE d \in Decoders :
              /\ Terminated(d)
              /\ \A e \in Decoders : Terminated(e) => d <= e

\* is_downloading_ = false; is_playing_ = false; if the downloader is
\* joinable, notify_all before joining it
StartEntry(who) ==
    /\ starts' = starts + 1
    /\ caller' = who
    /\ returned' = "none"
    /\ is_downloading_' = FALSE
    /\ is_playing_' = FALSE
    /\ buffer_cv_' = IF download_thread_ THEN {} ELSE buffer_cv_
    /\ ctl_pc' = "start_join_dl"
    /\ UNCHANGED <<audio_buffer_, buffer_size_, download_thread_, play_thread_,
                   dl, play, device_state, next_chunk, frees, pops>>
    /\ lyric_resolved' = FALSE
    /\ UNCHANGED <<titlevars, response, wait_count, lyricvars, fn>>

\* StartStreaming called by the application
StartBegin ==
    /\ ctl_pc = "idle"
    /\ starts < MaxStarts
    /\ StartEntry("api")

\* StartStreaming(current_Radio_url_) called by Download
DownloadStart ==
    /\ ctl_pc = "dl_start"
    /\ StartEntry("download")

\* download_thread_.join() returns; if the decoder is joinable, notify_all
\* before joining it
StartJoinDownload ==
    /\ ctl_pc = "start_join_dl"
    /\ download_thread_ => dl.pc = "done"
    /\ download_thread_' = FALSE
    /\ buffer_cv_' = IF play_thread_ # 0 THEN {} ELSE buffer_cv_
    /\ ctl_pc' = "start_join_play"
    /\ UNCHANGED <<is_downloading_, is_playing_, audio_buffer_, buffer_size_,
                   play_thread_, dl, play, device_state, next_chunk, frees, pops,
                   starts>>
    /\ UNCHANGED <<titlevars, response, returned, caller, wait_count, lyric_resolved, lyricvars, fn>>

\* play_thread_.join() returns; ClearAudioBuffer()
StartJoinPlay ==
    /\ ctl_pc = "start_join_play"
    /\ play_thread_ # 0 => play[play_thread_].pc = "done"
    /\ play_thread_' = 0
    /\ ClearAudioBuffer
    /\ ctl_pc' = "start_download"
    /\ UNCHANGED <<is_downloading_, is_playing_, buffer_cv_, download_thread_,
                   dl, play, device_state, next_chunk, pops, starts>>
    /\ UNCHANGED <<titlevars, response, returned, caller, wait_count, lyric_resolved, lyricvars, fn>>

\* is_downloading_ = true; download_thread_ = std::thread(DownloadAudioStream)
StartDownloadThread ==
    /\ ctl_pc = "start_download"
    /\ is_downloading_' = TRUE
    /\ download_thread_' = TRUE
    /\ dl' = [pc |-> "open", chunk |-> NoChunk]
    /\ ctl_pc' = "start_play"
    /\ UNCHANGED <<is_playing_, audio_buffer_, buffer_size_, buffer_cv_,
                   play_thread_, play, device_state, next_chunk, frees, pops,
                   starts>>
    /\ UNCHANGED <<titlevars, response, returned, caller, wait_count, lyric_resolved, lyricvars, fn>>

\* is_playing_ = true; play_thread_ = std::thread(PlayAudioStream)
StartPlayThread ==
    /\ ctl_pc = "start_play"
    /\ is_playing_' = TRUE
    /\ play_thread_' = FreeSlot
    /\ play' = [play EXCEPT ![FreeSlot] = [IdlePlay EXCEPT !.pc = "init"]]
    /\ IF caller = "api"
       THEN ctl_pc' = "idle" /\ returned' = "start"
       ELSE ctl_pc' = "dl_lyric" /\ UNCHANGED returned
    /\ UNCHANGED <<is_downloading_, audio_buffer_, buffer_size_, buffer_cv_,
                   download_thread_, dl, device_state, next_chunk, frees, pops,
                   starts>>
    /\ UNCHANGED <<titlevars, response, caller, wait_count, lyric_resolved, lyricvars, fn>>

----------------------------------------------------------------------------
(* Download *)

\* the song names Download is called with
SongNames == {"", "song"}

\* what the metadata request can bring back: the connection does not open, a
\* status other than 200, or a body.  A body carries the authentication
\* failure text or not, and is empty, not JSON, or a JSON object whose
\* audio_url and lyric_url are missing, empty or a path.
Body(sentinel, json, audio_url, lyric_url) ==
    [sentinel |-> sentinel, json |-> json, audio_url |-> audio_url,
     lyric_url |-> lyric_url]
Bodies ==
    {Body(TRUE, "malformed", "missing", "missing"),
     Body(FALSE, "empty", "missing", "missing"),
     Body(FALSE, "malformed", "missing", "missing"),
     Body(FALSE, "object", "missing", "path"),
     Body(FALSE, "object", "", "path"),
     Body(FALSE, "object", "path", "missing"),
     Body(FALSE, "object", "path", ""),
     Body(FALSE, "object", "path", "path")}
Responses ==
    {[open |-> FALSE, status |-> 0, body |-> "none"],
     [open |-> TRUE, status |-> 404, body |-> "none"],
     [open |-> TRUE, status |-> 206, body |-> "none"]}
    \cup {[open |-> TRUE, status |-> 200, body |-> b] : b \in Bodies}

\* a Download that takes an empty audio_url for a stream
DownloadOutcomeAnyUrl(resp) ==
    IF ~resp.open THEN "false"
    ELSE IF resp.status # 200 THEN "false"
    ELSE IF resp.body.sentinel THEN "false"
    ELSE IF resp.body.json # "object" THEN "false"
    ELSE IF resp.body.audio_url = "missing" THEN "false"
    ELSE "stream"

\* the checks of Download in their order: "false" is return false, "stream"
\* goes on to StartStreaming
DownloadOutcome(resp) ==
    IF ~resp.open THEN "false"
    ELSE IF resp.status # 200 THEN "false"
    ELSE IF resp.body.sentinel THEN "false"
    ELSE IF resp.body.json = "empty" THEN "false"
    ELSE IF resp.body.json # "object" THEN "false"
    ELSE IF resp.body.audio_url \in {"missing", ""} THEN "false"
    ELSE "stream"

\* last_downloaded_data_.clear(); current_song_name_ = song_name; the
\* request is sent
DownloadBegin ==
    /\ ctl_pc = "idle"
    /\ \E song_name \in SongNames : current_song_name_' = song_name
    /\ ctl_pc' = "dl_request"
    /\ returned' = "none"
    /\ UNCHANGED <<is_downloading_, is_playing_, audio_buffer_, buffer_size_,
                   buffer_cv_, download_thread_, play_thread_, dl, play,
                   device_state, next_chunk, frees, pops, starts,
                   song_name_displayed_, music_info, response, caller, wait_count, lyric_resolved,
                   lyricvars, fn>>

\* http->Open, GetStatusCode and ReadAll have returned
DownloadResponse(resp) ==
    /\ ctl_pc = "dl_request"
    /\ DownloadOutcome(resp) = "stream" => starts < MaxDownloadSessions
    /\ response' = resp
    /\ ctl_pc' = "dl_parse"
    /\ UNCHANGED <<is_downloading_, is_playing_, audio_buffer_, buffer_size_,
                   buffer_cv_, download_thread_, play_thread_, dl, play,
                   device_state, next_chunk, frees, pops, starts, titlevars,
                   returned, caller, wait_count, lyric_resolved, lyricvars, fn>>

\* the checks of the response: return false, or song_name_displayed_ = false
\* and the call of StartStreaming
DownloadParse ==
    /\ ctl_pc = "dl_parse"
    /\ IF DownloadOutcome(response) = "false"
       THEN /\ ctl_pc' = "idle"
            /\ returned' = "download_false"
            /\ response' = NoResponse
            /\ UNCHANGED song_name_displayed_
       ELSE /\ song_name_displayed_' = FALSE
            /\ ctl_pc' = "dl_start"
            /\ UNCHANGED <<returned, response>>
    /\ UNCHANGED <<is_downloading_, is_playing_, audio_buffer_, buffer_size_,
                   buffer_cv_, download_thread_, play_thread_, dl, play,
                   device_state, next_chunk, frees, pops, starts,
                   current_song_name_, music_info, caller, wait_count, lyric_resolved, lyricvars, fn>>

\* a lyric thread for every response with a lyric_url, whatever the mode
LyricsWantedInAnyMode == response.body.lyric_url = "path"

\* lines 378 and 393: the response has a non-empty lyric_url and the display
\* mode is lyrics
LyricsWanted ==
    /\ response.body.lyric_url = "path"
    /\ display_mode_ = DISPLAY_MODE_LYRICS

\* line 400: lyrics_.clear() without lyrics_mutex_; a decoder that is inside
\* UpdateLyricDisplay at that moment has raced with the clear
ClearLyricsUnlocked ==
    /\ lyrics_' = <<>>
    /\ play' = [d \in Decoders |->
                  IF play[d].pc = "lyric_update"
                  THEN [play[d] EXCEPT !.pc = "lyric_raced"]
                  ELSE play[d]]

\* lines 398-402: the flag, the index, the list and the new thread; the
\* assignment to a std::thread that is still joinable calls std::terminate
StartLyricThread ==
    /\ is_lyric_running_' = TRUE
    /\ current_lyric_index_' = -1
    /\ ClearLyricsUnlocked
    /\ IF lyric_thread_ # "none"
       THEN ctl_pc' = "terminate" /\ UNCHANGED <<lyric_thread_, returned>>
       ELSE /\ lyric_thread_' = "download"
            /\ ctl_pc' = "idle"
            /\ returned' = "download_true"
    /\ response' = NoResponse

\* lines 378-408 after StartStreaming has returned: with a lyric_url and in
\* lyrics mode, a running lyric thread is told to stop and joined, then the
\* new one is started; return true
DownloadLyricPart ==
    /\ ctl_pc = "dl_lyric"
    /\ lyric_resolved' = (response.body.lyric_url = "path")
    /\ IF LyricsWanted
       THEN IF is_lyric_running_
            THEN /\ is_lyric_running_' = FALSE
                 /\ ctl_pc' = "dl_lyric_join"
                 /\ UNCHANGED <<current_lyric_index_, lyrics_, lyric_thread_,
                                returned, response, play>>
            ELSE StartLyricThread
       ELSE /\ ctl_pc' = "idle"
            /\ returned' = "download_true"
            /\ response' = NoResponse
            /\ UNCHANGED <<is_lyric_running_, current_lyric_index_, lyrics_,
                           lyric_thread_, play>>
    /\ UNCHANGED <<is_downloading_, is_playing_, audio_buffer_, buffer_size_,
                   buffer_cv_, download_thread_, play_thread_, dl,
                   device_state, next_chunk, frees, pops, starts, titlevars,
                   caller, wait_count, display_mode_, current_play_time_ms_,
                   lyric_hist, chat_message, fn>>

\* line 396: if (lyric_thread_.joinable()) lyric_thread_.join(), then
\* lines 398-402
DownloadLyricJoin ==
    /\ ctl_pc = "dl_lyric_join"
    /\ lyric_thread_ \in {"none", "done"}
    /\ is_lyric_running_' = TRUE
    /\ current_lyric_index_' = -1
    /\ ClearLyricsUnlocked
    /\ lyric_thread_' = "download"
    /\ ctl_pc' = "idle"
    /\ returned' = "download_true"
    /\ response' = NoResponse
    /\ UNCHANGED <<is_downloading_, is_playing_, audio_buffer_, buffer_size_,
                   buffer_cv_, download_thread_, play_thread_, dl,
                   device_state, next_chunk, frees, pops, starts, titlevars,
                   caller, wait_count, lyric_resolved, display_mode_,
                   current_play_time_ms_, lyric_hist, chat_message, fn>>

----------------------------------------------------------------------------
(* StopStreaming *)

\* nothing is streaming: return true.  Otherwise both flags false,
\* SetMusicInfo(""), notify_all
StopBegin ==
    /\ ctl_pc = "idle"
    /\ IF ~is_playing_ /\ ~is_downloading_
       THEN /\ returned' = "stop"
            /\ UNCHANGED <<is_downloading_, is_playing_, buffer_cv_, ctl_pc,
                           music_info>>
       ELSE /\ is_downloading_' = FALSE
            /\ is_playing_' = FALSE
            /\ music_info' = ""
            /\ buffer_cv_' = {}
            /\ ctl_pc' = "stop_join_dl"
            /\ returned' = "none"
    /\ UNCHANGED <<audio_buffer_, buffer_size_, download_thread_, play_thread_,
                   dl, play, device_state, next_chunk, frees, pops, starts>>
    /\ UNCHANGED <<current_song_name_, song_name_displayed_, response, caller, wait_count, lyric_resolved,
                   lyricvars, fn>>

\* if (download_thread_.joinable()) download_thread_.join()
StopJoinDownload ==
    /\ ctl_pc = "stop_join_dl"
    /\ download_thread_ => dl.pc = "done"
    /\ download_thread_' = FALSE
    /\ ctl_pc' = "stop_wait_play"
    /\ UNCHANGED <<is_downloading_, is_playing_, audio_buffer_, buffer_size_,
                   buffer_cv_, play_thread_, dl, play, device_state, next_chunk,
                   frees, pops, starts>>
    /\ UNCHANGED <<titlevars, response, returned, caller, wait_count, lyric_resolved, lyricvars, fn>>

\* the polls StopStreaming makes before it gives the decoder up (max_wait is
\* 100 in the source, 10 ms apart)
max_wait == 2

\* while (!thread_finished && wait_count < max_wait): thread_finished is set
\* only when joinable() is false, and joinable() stays true until join or
\* detach, whether or not the thread has returned
StopPollAgain == wait_count < max_wait

\* if (play_thread_.joinable()): is_playing_ = false and notify_all before the
\* first round; one round is vTaskDelay(10 ms) and wait_count++
StopPollPlay ==
    /\ ctl_pc = "stop_wait_play"
    /\ play_thread_ # 0
    /\ StopPollAgain
    /\ wait_count' = wait_count + 1
    /\ UNCHANGED lyric_resolved
    /\ IF wait_count = 0
       THEN is_playing_' = FALSE /\ buffer_cv_' = {}
       ELSE UNCHANGED <<is_playing_, buffer_cv_>>
    /\ UNCHANGED <<is_downloading_, audio_buffer_, buffer_size_, download_thread_,
                   play_thread_, dl, play, ctl_pc, device_state, next_chunk,
                   frees, pops, starts>>
    /\ UNCHANGED <<titlevars, response, returned, caller, lyricvars, fn>>

\* after the loop: detach() when wait_count >= max_wait, else join(), which
\* returns when the decoder has; then return true
StopWaitPlay ==
    /\ ctl_pc = "stop_wait_play"
    /\ IF play_thread_ = 0
       THEN UNCHANGED play_thread_
       ELSE /\ ~StopPollAgain
            /\ wait_count < max_wait => Terminated(play_thread_)
            /\ play_thread_' = 0
    /\ wait_count' = 0
    /\ UNCHANGED lyric_resolved
    /\ ctl_pc' = "idle"
    /\ returned' = "stop"
    /\ UNCHANGED <<is_downloading_, is_playing_, audio_buffer_, buffer_size_,
                   buffer_cv_, download_thread_, dl, play, device_state,
                   next_chunk, frees, pops, starts>>
    /\ UNCHANGED <<titlevars, response, caller, lyricvars, fn>>

----------------------------------------------------------------------------
(* ~Esp32Radio *)

\* the three flags false, notify_all
DtorBegin ==
    /\ ctl_pc = "idle"
    /\ is_downloading_' = FALSE
    /\ is_playing_' = FALSE
    /\ is_lyric_running_' = FALSE
    /\ buffer_cv_' = {}
    /\ ctl_pc' = "dtor_join_dl"
    /\ returned' = "none"
    /\ UNCHANGED <<audio_buffer_, buffer_size_, download_thread_, play_thread_,
                   dl, play, device_state, next_chunk, frees, pops, starts>>
    /\ UNCHANGED <<titlevars, response, caller, wait_count, lyric_resolved, display_mode_, lyric_thread_,
                   lyrics_, current_lyric_index_, current_play_time_ms_,
                   lyric_hist, chat_message, fn>>

\* one round of the 5 s loop: is_downloading_ = false; notify_all
DtorPollDownload ==
    /\ ctl_pc = "dtor_join_dl"
    /\ download_thread_
    /\ is_downloading_' = FALSE
    /\ buffer_cv_' = {}
    /\ UNCHANGED <<is_playing_, audio_buffer_, buffer_size_, download_thread_,
                   play_thread_, dl, play, ctl_pc, device_state, next_chunk,
                   frees, pops, starts>>
    /\ UNCHANGED <<titlevars, response, returned, caller, wait_count, lyric_resolved, lyricvars, fn>>

\* download_thread_.join() returns
DtorJoinDownload ==
    /\ ctl_pc = "dtor_join_dl"
    /\ download_thread_ => dl.pc = "done"
    /\ download_thread_' = FALSE
    /\ ctl_pc' = "dtor_join_play"
    /\ UNCHANGED <<is_downloading_, is_playing_, audio_buffer_, buffer_size_,
                   buffer_cv_, play_thread_, dl, play, device_state, next_chunk,
                   frees, pops, starts>>
    /\ UNCHANGED <<titlevars, response, returned, caller, wait_count, lyric_resolved, lyricvars, fn>>

\* one round of the 3 s loop: is_playing_ = false; notify_all
DtorPollPlay ==
    /\ ctl_pc = "dtor_join_play"
    /\ play_thread_ # 0
    /\ is_playing_' = FALSE
    /\ buffer_cv_' = {}
    /\ UNCHANGED <<is_downloading_, audio_buffer_, buffer_size_, download_thread_,
                   play_thread_, dl, play, ctl_pc, device_state, next_chunk,
                   frees, pops, starts>>
    /\ UNCHANGED <<titlevars, response, returned, caller, wait_count, lyric_resolved, lyricvars, fn>>

\* play_thread_.join() returns
DtorJoinPlay ==
    /\ ctl_pc = "dtor_join_play"
    /\ play_thread_ # 0 => play[play_thread_].pc = "done"
    /\ play_thread_' = 0
    /\ ctl_pc' = "dtor_join_lyric"
    /\ UNCHANGED <<is_downloading_, is_playing_, audio_buffer_, buffer_size_,
                   buffer_cv_, download_thread_, dl, play, device_state,
                   next_chunk, frees, pops, starts>>
    /\ UNCHANGED <<titlevars, response, returned, caller, wait_count, lyric_resolved, lyricvars, fn>>

\* lyric_thread_.join() returns; ClearAudioBuffer(); CleanupMp3Decoder()
DtorJoinLyric ==
    /\ ctl_pc = "dtor_join_lyric"
    /\ lyric_thread_ \in {"none", "done"}
    /\ lyric_thread_' = "none"
    /\ ClearAudioBuffer
    /\ ctl_pc' = "destroyed"
    /\ UNCHANGED <<is_downloading_, is_playing_, buffer_cv_, download_thread_,
                   play_thread_, dl, play, device_state, next_chunk, pops,
                   starts>>
    /\ UNCHANGED <<titlevars, response, returned, caller, wait_count, lyric_resolved, display_mode_,
                   is_lyric_running_, lyrics_, current_lyric_index_,
                   current_play_time_ms_, lyric_hist, chat_message, fn>>

----------------------------------------------------------------------------
(* The environment *)

\* the application moves to another interaction state
SetDeviceState ==
    /\ \E s \in DeviceState \ {device_state} : device_state' = s
    /\ UNCHANGED <<is_downloading_, is_playing_, audio_buffer_, buffer_size_,
                   buffer_cv_, download_thread_, play_thread_, dl, play, ctl_pc,
                   next_chunk, frees, pops, starts>>
    /\ UNCHANGED <<titlevars, response, returned, caller, wait_count, lyric_resolved, lyricvars, fn>>

\* a condition variable wait may return without a notification
SpuriousWake ==
    /\ \E t \in buffer_cv_ : buffer_cv_' = buffer_cv_ \ {t}
    /\ UNCHANGED <<is_downloading_, is_playing_, audio_buffer_, buffer_size_,
                   download_thread_, play_thread_, dl, play, ctl_pc, device_state,
                   next_chunk, frees, pops, starts>>
    /\ UNCHANGED <<titlevars, response, returned, caller, wait_count, lyric_resolved, lyricvars, fn>>

----------------------------------------------------------------------------
Downloader == DlOpen \/ DlLoop \/ DlRead \/ DlPush \/ DlClose

Decoder(d) ==
    \/ PlayInit(d) \/ PlayPrebuffer(d) \/ PlayAlloc(d) \/ PlayLoop(d)
    \/ PlayGateWait(d) \/ PlayTitle(d) \/ PlayPop(d) \/ PlayPopWait(d) \/ PlayCopy(d)
    \/ PlayDecode(d) \/ PlayDecodeRecover(d) \/ PlayEmit(d) \/ PlayExit(d)

StartStreaming ==
    \/ StartBegin \/ StartJoinDownload \/ StartJoinPlay
    \/ StartDownloadThread \/ StartPlayThread

StopStreaming ==
    StopBegin \/ StopJoinDownload \/ StopPollPlay \/ StopWaitPlay

Destructor ==
    \/ DtorBegin \/ DtorPollDownload \/ DtorJoinDownload
    \/ DtorPollPlay \/ DtorJoinPlay \/ DtorJoinLyric

Next ==
    \/ Downloader
    \/ \E d \in Decoders : Decoder(d)
    \/ StartStreaming
    \/ StopStreaming
    \/ Destructor
    \/ SetDeviceState
    \/ SpuriousWake

Spec == Init /\ [][Next]_vars

Download ==
    \/ DownloadBegin
    \/ \E resp \in Responses : DownloadResponse(resp)
    \/ DownloadParse
    \/ DownloadStart
    \/ StartJoinDownload \/ StartJoinPlay
    \/ StartDownloadThread \/ StartPlayThread
    \/ DownloadLyricPart

\* the engine as the command layer drives it: Download resolves the song and
\* starts the session, StopStreaming ends it
ApiNext ==
    \/ Downloader
    \/ \E d \in Decoders : Decoder(d)
    \/ Download
    \/ StopStreaming
    \/ Destructor
    \/ SetDeviceState
    \/ SpuriousWake

ApiSpec == Init /\ [][ApiNext]_vars

\* one StartStreaming of a stream of MaxPushChunks chunks
PushStart ==
    /\ ctl_pc = "idle"
    /\ starts = 0
    /\ StartEntry("api")

\* one session on a stream that can fill the queue, and its StopStreaming
PushNext ==
    \/ DlOpen \/ DlLoop \/ DlReadUpTo(MaxPushChunks) \/ DlPush \/ DlClose
    \/ \E d \in Decoders : Decoder(d)
    \/ PushStart \/ StartJoinDownload \/ StartJoinPlay
    \/ StartDownloadThread \/ StartPlayThread
    \/ StopStreaming
    \/ SetDeviceState
    \/ SpuriousWake

PushSpec == Init /\ [][PushNext]_vars

\* sessions started and stopped one after another on streams that can fill
\* the queue
RestartNext ==
    \/ DlOpen \/ DlLoop \/ DlReadUpTo(MaxPushChunks) \/ DlPush \/ DlClose
    \/ \E d \in Decoders : Decoder(d)
    \/ StartStreaming
    \/ StopStreaming
    \/ SetDeviceState
    \/ SpuriousWake

RestartSpec == Init /\ [][RestartNext]_vars

\* Scheduling: every thread that can take a step eventually takes one.  The
\* network calls (http->Open, http->Read) may never return, the controller
\* need not call again once an operation has returned, and nothing promises a
\* device state change or a spurious wake-up.
ControllerStep ==
    \/ StartJoinDownload \/ StartJoinPlay \/ StartDownloadThread
    \/ StartPlayThread \/ StopJoinDownload \/ StopPollPlay \/ StopWaitPlay
    \/ DtorJoinDownload \/ DtorJoinPlay \/ DtorJoinLyric

FairSpec ==
    /\ Spec
    /\ WF_vars(DlLoop \/ DlPush \/ DlClose)
    /\ \A d \in Decoders : WF_vars(Decoder(d))
    /\ WF_vars(ControllerStep)

\* scheduling of the one session: as in FairSpec, and here the network always
\* answers (http->Open and http->Read return)
PushFairSpec ==
    /\ PushSpec
    /\ WF_vars(DlOpen \/ DlLoop \/ DlReadUpTo(MaxPushChunks) \/ DlPush
                 \/ DlClose)
    /\ \A d \in Decoders : WF_vars(Decoder(d))
    /\ WF_vars(ControllerStep)

----------------------------------------------------------------------------
(* ParseLyrics.  A string is a sequence of one-character strings. *)

Digits == {"0", "1", "2", "3", "4", "5", "6", "7", "8", "9"}
DigitValue(c) ==
    CASE c = "0" -> 0 [] c = "1" -> 1 [] c = "2" -> 2 [] c = "3" -> 3
      [] c = "4" -> 4 [] c = "5" -> 5 [] c = "6" -> 6 [] c = "7" -> 7
      [] c = "8" -> 8 [] c = "9" -> 9

RECURSIVE Pow(_, _)
Pow(b, n) == IF n = 0 THEN 1 ELSE b * Pow(b, n - 1)

\* the value of a string of digits
RECURSIVE DecimalValue(_)
DecimalValue(str) ==
    IF str = <<>> THEN 0
    ELSE 10 * DecimalValue(SubSeq(str, 1, Len(str) - 1))
         + DigitValue(str[Len(str)])

\* std::string::find(c): the first position of c, 0 for npos
RECURSIVE FindFrom(_, _, _)
FindFrom(str, c, i) ==
    IF i > Len(str) THEN 0
    ELSE IF str[i] = c THEN i ELSE FindFrom(str, c, i + 1)
Find(str, c) == FindFrom(str, c, 1)

\* the length of the longest prefix of str made of digits, from position i
RECURSIVE DigitRun(_, _)
DigitRun(str, i) ==
    IF i <= Len(str) /\ str[i] \in Digits THEN 1 + DigitRun(str, i + 1) ELSE 0

\* division that rounds to the nearest integer, a tie to the even one
RoundHalfEven(num, den) ==
    LET q == num \div den
        r == num % den
    IN IF 2 * r > den \/ (2 * r = den /\ q % 2 = 1) THEN q + 1 ELSE q

\* the binary exponent k with 2^23 <= n * 2^k / den  (n > 0)
RECURSIVE FloatScale(_, _, _)
FloatScale(n, den, k) ==
    IF n * Pow(2, k) >= Pow(2, 23) * den THEN k ELSE FloatScale(n, den, k + 1)

\* (int)(seconds * 1000) for the float nearest to n / den, computed in single
\* precision: the 24-bit significand m of n / den, then the product
\* m * 1000 / 2^k rounded to 24 bits again, then truncated
FloatTimes1000(n, den) ==
    IF n = 0 THEN 0
    ELSE LET k == FloatScale(n, den, 0)
             m == RoundHalfEven(n * Pow(2, k), den)
             x == m * 125
             s == IF x >= Pow(2, 30) THEN 7 ELSE 6
             y == RoundHalfEven(x, Pow(2, s))
         IN y \div Pow(2, k - s - 3)

\* std::stof(str) followed by (int)(seconds * 1000): the longest prefix of
\* the form digits[.digits] is converted; -1 stands for the exception that
\* stof throws when str does not start with a number
SecondsToMs(str) ==
    LET a == DigitRun(str, 1)
        dot == a + 1 <= Len(str) /\ str[a + 1] = "."
        b == IF dot THEN DigitRun(str, a + 2) ELSE 0
    IN IF a = 0 /\ b = 0 THEN -1
       ELSE FloatTimes1000(
                DecimalValue(SubSeq(str, 1, a)) * Pow(10, b)
                + DecimalValue(SubSeq(str, a + 2, a + 1 + b)),
                Pow(10, b))

\* one line of the lyric file: <<timestamp_ms, text>> in a one-element
\* sequence, or no entry
ParseLine(line) ==
    IF ~(Len(line) > 10 /\ line[1] = "[") THEN <<>>
    ELSE LET close_bracket == Find(line, "]") IN
    IF close_bracket = 0 THEN <<>>
    ELSE LET tag_or_time == SubSeq(line, 2, close_bracket - 1)
             content == SubSeq(line, close_bracket + 1, Len(line))
             colon_pos == Find(tag_or_time, ":")
         IN
    IF colon_pos = 0 THEN <<>>
    ELSE LET left_part == SubSeq(tag_or_time, 1, colon_pos - 1)
             right_part == SubSeq(tag_or_time, colon_pos + 1,
                                  Len(tag_or_time))
         IN
    IF \E i \in 1..Len(left_part) : left_part[i] \notin Digits THEN <<>>
    ELSE IF left_part = <<>> \/ SecondsToMs(right_part) = -1 THEN <<>>
    ELSE << <<DecimalValue(left_part) * 60 * 1000 + SecondsToMs(right_part),
              content>> >>

\* std::getline leaves a trailing '\r', which is removed; empty lines are
\* skipped
StripCr(line) ==
    IF line # <<>> /\ line[Len(line)] = "\r"
    THEN SubSeq(line, 1, Len(line) - 1) ELSE line

RECURSIVE ParseLines(_)
ParseLines(lines) ==
    IF lines = <<>> THEN <<>>
    ELSE ParseLine(StripCr(Head(lines))) \o ParseLines(Tail(lines))

\* operator< of std::string compares the characters' codes
CharCode(c) ==
    CASE c \in Digits -> 48 + DigitValue(c)
      [] c = "\r" -> 13 [] c = " " -> 32 [] c = "." -> 46 [] c = ":" -> 58
      [] c = "H" -> 72 [] c = "S" -> 83 [] c = "[" -> 91 [] c = "]" -> 93
      [] c = "a" -> 97 [] c = "b" -> 98 [] c = "e" -> 101 [] c = "l" -> 108
      [] c = "m" -> 109 [] c = "n" -> 110 [] c = "o" -> 111 [] c = "r" -> 114
RECURSIVE StringLess(_, _)
StringLess(a, b) ==
    IF b = <<>> THEN FALSE
    ELSE IF a = <<>> THEN TRUE
    ELSE IF CharCode(Head(a)) # CharCode(Head(b))
         THEN CharCode(Head(a)) < CharCode(Head(b))
         ELSE StringLess(Tail(a), Tail(b))

\* operator< of std::pair<int, std::string>
PairLess(p, q) == p[1] < q[1] \/ (p[1] = q[1] /\ StringLess(p[2], q[2]))

\* a sort that leaves the list as parsed
SortLyricsNot(list) == list

\* std::sort(lyrics_.begin(), lyrics_.end()): insertion into a sorted list
RECURSIVE SortLyrics(_)
SortLyrics(list) ==
    IF list = <<>> THEN <<>>
    ELSE LET rest == SortLyrics(Tail(list))
             p == Head(list)
             n == Cardinality({i \in 1..Len(rest) : PairLess(rest[i], p)})
         IN SubSeq(rest, 1, n) \o <<p>> \o SubSeq(rest, n + 1, Len(rest))

\* ParseLyrics: the value of lyrics_ when it returns
ParseLyrics(lyric_content) == SortLyrics(ParseLines(lyric_content))

----------------------------------------------------------------------------
(* SkipId3Tag.  data holds the bytes that the function can read (at most the
   ten bytes of the header), size is the length of the buffer. *)

SkipId3TagUnclamped(data, size) ==
    IF size < 10 THEN 0
    ELSE IF SubSeq(data, 1, 3) # <<73, 68, 51>> THEN 0
    ELSE 10 + ((data[7] % 128) * 2097152 + (data[8] % 128) * 16384
               + (data[9] % 128) * 128 + (data[10] % 128))

SkipId3Tag(data, size) ==
    IF size < 10 THEN 0
    ELSE IF SubSeq(data, 1, 3) # <<73, 68, 51>> THEN 0
    ELSE LET tag_size == (data[7] % 128) * 2097152 + (data[8] % 128) * 16384
                         + (data[9] % 128) * 128 + (data[10] % 128)
             total_skip == 10 + tag_size
         IN IF total_skip > size THEN size ELSE total_skip

----------------------------------------------------------------------------
(* The frame step of PlayAudioStream after a successful MP3Decode: the check
   of the frame information and the conversion to mono. *)

\* a quotient that rounds toward minus infinity
FloorDiv(a, b) == a \div b

\* the quotient of C++, which truncates toward zero
CDiv(a, b) == IF a >= 0 THEN a \div b ELSE -((-a) \div b)

\* the decision of the frame step: the frame is skipped, or its samples are
\* sent on, converted when the frame has two channels
DownmixFrame(frame) ==
    IF frame.samprate = 0 \/ frame.nChans = 0
    THEN [rejected |-> TRUE, emitted |-> FALSE, pcm |-> <<>>]
    ELSE IF ~(frame.outputSamps > 0)
    THEN [rejected |-> FALSE, emitted |-> FALSE, pcm |-> <<>>]
    ELSE IF frame.nChans = 2
    THEN [rejected |-> FALSE, emitted |-> TRUE,
          pcm |-> [i \in 1..(frame.outputSamps \div 2) |->
                      CDiv(frame.pcm_buffer[2 * i - 1]
                           + frame.pcm_buffer[2 * i], 2)]]
    ELSE [rejected |-> FALSE, emitted |-> TRUE,
          pcm |-> SubSeq(frame.pcm_buffer, 1, frame.outputSamps)]

----------------------------------------------------------------------------
(* The URLs that Download takes from the response. *)

base_url ==
    <<"h", "t", "t", "p", "s", ":", "/", "/", "a", "i", ".", "d", "a", "o",
      "n", "g", "o", "c", ".", "v", "n", "/", "r", "a", "d", "i", "o", "/">>
HttpPrefix ==
    <<"h", "t", "t", "p", ":", "/", "/">>
HttpsPrefix ==
    <<"h", "t", "t", "p", "s", ":", "/", "/">>
ProxyMarker ==
    <<"r", "a", "d", "i", "o", "_", "p", "r", "o", "x", "y", ".", "p", "h",
      "p">>

\* str.rfind(prefix, 0) == 0
StartsWith(str, prefix) ==
    Len(str) >= Len(prefix) /\ SubSeq(str, 1, Len(prefix)) = prefix

\* str.find(part) != std::string::npos
Contains(str, part) ==
    \E i \in 1..(Len(str) - Len(part) + 1) :
        SubSeq(str, i, i + Len(part) - 1) = part

\* a resolution that leaves a proxy path as it is
ResolveAudioUrlProxyUnchanged(audio_path) ==
    IF StartsWith(audio_path, HttpPrefix) \/ Contains(audio_path, ProxyMarker)
    THEN audio_path
    ELSE base_url \o audio_path

\* lines 361-369: current_Radio_url_
ResolveAudioUrl(audio_path) ==
    IF StartsWith(audio_path, HttpPrefix)
       \/ StartsWith(audio_path, HttpsPrefix)
    THEN audio_path
    ELSE IF Contains(audio_path, ProxyMarker)
    THEN base_url \o audio_path
    ELSE base_url \o audio_path

\* lines 381-389: current_lyric_url_
ResolveLyricUrl(lyric_path) ==
    IF StartsWith(lyric_path, HttpPrefix)
       \/ StartsWith(lyric_path, HttpsPrefix)
    THEN lyric_path
    ELSE IF Contains(lyric_path, ProxyMarker)
    THEN base_url \o lyric_path
    ELSE base_url \o lyric_path

UrlPaths ==
    {<<"h", "t", "t", "p", ":", "/", "/", "h", "/", "a">>,
     <<"h", "t", "t", "p", "s", ":", "/", "/", "h", "/", "a">>,
     <<"r", "a", "d", "i", "o", "_", "p", "r", "o", "x", "y", ".", "p",
       "h", "p", "?", "a">>,
     <<"a", "/", "r", "a", "d", "i", "o", "_", "p", "r", "o", "x", "y",
       ".", "p", "h", "p">>,
     <<"a", ".", "m", "p", "3">>,
     <<"h", "t", "t", "p", ":", "/", "a">>,
     <<"x", "h", "t", "t", "p", ":", "/", "/", "a">>,
     <<"h", "t", "t", "p", "s", ":", "/", "/", "h", "/", "r", "a", "d",
       "i", "o", "_", "p", "r", "o", "x", "y", ".", "p", "h", "p">>,
     <<"h">>}

----------------------------------------------------------------------------
(* The functions applied to inputs drawn from bounded sets. *)

DigitChar(v) == CHOOSE c \in Digits : DigitValue(c) = v
TwoDigits(n) == <<DigitChar(n \div 10), DigitChar(n % 10)>>

Hello == <<"H", "e", "l", "l", "o">>
ArSomeone == <<"[", "a", "r", ":", "S", "o", "m", "e", "o", "n", "e", "]">>

\* a line of the lyric file, described by its parts
TimedLine(mm, ss, xx, text) ==
    [kind |-> "timed", mm |-> mm, ss |-> ss, xx |-> xx, text |-> text]
TagLine(text) ==
    [kind |-> "tag", mm |-> 0, ss |-> 0, xx |-> 0, text |-> text]

\* the characters of a described line
Render(l) ==
    IF l.kind = "timed"
    THEN <<"[">> \o TwoDigits(l.mm) \o <<":">> \o TwoDigits(l.ss) \o <<".">>
         \o TwoDigits(l.xx) \o <<"]">> \o l.text
    ELSE l.text

\* the lines of a described file
RenderFile(file) == [i \in 1..Len(file) |-> Render(file[i])]

LineTexts == {<<>>, <<"a">>, <<"b">>, Hello, Hello \o <<"\r">>}
LineTimes == {<<1, 2, 50>>, <<0, 0, 0>>, <<0, 8, 3>>, <<0, 8, 4>>,
              <<0, 16, 5>>, <<59, 59, 99>>}
LrcLines ==
    {TimedLine(t[1], t[2], t[3], text) : t \in LineTimes, text \in LineTexts}
    \cup {TagLine(ArSomeone), TagLine(<<>>),
          TagLine(<<"[", "0", "0", ":", "b", "]", "a", "a", "a", "a", "a">>)}

MaxLines == 2
LyricFiles == UNION {[1..n -> LrcLines] : n \in 0..MaxLines}

Id3Headers ==
    {<<i, 68, 51, 3, 0, 0, b6, b7, b8, b9>> :
        i \in {73, 84}, b6 \in {0, 127, 128}, b7 \in {0, 255},
        b8 \in {0, 2, 129}, b9 \in {0, 1, 255}}
BufferSizes == {0, 9, 10, 266, 267, 300, 268435465}
Id3Inputs ==
    {[data |-> SubSeq(h, 1, IF size < 10 THEN size ELSE 10), size |-> size] :
        h \in Id3Headers, size \in BufferSizes}

Samples == {-32768, -101, -100, -1, 0, 1, 100, 200, 32767}
MaxSamples == 3
Frames ==
    {[nChans |-> c, samprate |-> r, outputSamps |-> Len(b), pcm_buffer |-> b] :
        c \in 0..3, r \in {0, 44100},
        b \in UNION {[1..n -> Samples] : n \in 0..MaxSamples}}

\* DownloadLyrics.  net is what the network answers to the successive
\* attempts: whether CreateHttp gives a client, whether Open succeeds, the
\* status code, the Location of a redirect, and how the reading ends.
max_retries == 3
max_redirects == 5

Answer(client, open, status, read) ==
    [client |-> client, open |-> open, status |-> status, read |-> read,
     location |-> "location_url"]
Answers ==
    {Answer(FALSE, FALSE, 0, "none"), Answer(TRUE, FALSE, 0, "none")}
    \cup {Answer(TRUE, TRUE, st, "data") : st \in {199, 301, 302, 304, 404}}
    \cup {Answer(TRUE, TRUE, st, rd) :
            st \in {200, 206},
            rd \in {"data", "empty", "error", "data_then_error"}}

\* the file that a read with data delivers
FetchedFile == <<TimedLine(0, 0, 0, <<"a">>), TagLine(ArSomeone)>>

IsRedirect(status_code) == status_code \in {301, 302, 303, 307, 308}

\* the retry loop, lines 1112-1215, and the tests after it; requests lists
\* the URLs given to Open
RECURSIVE DownloadLyricsLoop(_, _, _, _, _, _, _)
DownloadLyricsLoop(net, current_url, retry_count, redirect_count, success, requests, lyric_content) ==
    IF retry_count < max_retries /\ ~success /\ redirect_count < max_redirects
    THEN LET a == net[retry_count + 1] IN
         IF ~a.client
         THEN DownloadLyricsLoop(net, current_url, retry_count + 1,
                                 redirect_count, success, requests,
                                 lyric_content)
         ELSE LET asked == Append(requests, current_url) IN
         IF ~a.open \/ IsRedirect(a.status)
            \/ a.status < 200 \/ a.status >= 300
         THEN DownloadLyricsLoop(net, current_url, retry_count + 1,
                                 redirect_count, success, asked,
                                 lyric_content)
         ELSE IF a.read = "error"
         THEN DownloadLyricsLoop(net, current_url, retry_count + 1,
                                 redirect_count, success, asked, <<>>)
         ELSE DownloadLyricsLoop(net, current_url, retry_count,
                                 redirect_count, TRUE, asked,
                                 IF a.read = "empty" THEN <<>>
                                 ELSE RenderFile(FetchedFile))
    ELSE [attempts |-> retry_count + (IF success THEN 1 ELSE 0),
          requests |-> requests,
          parse |-> retry_count < max_retries /\ lyric_content # <<>>,
          lyric_content |-> lyric_content]

\* a fetch that gives up after its first attempt
DownloadLyricsOneTry(net, lyric_url) ==
    DownloadLyricsLoop(<<net[1], net[1], net[1]>>, lyric_url,
                       max_retries - 1, 0, FALSE, <<>>, <<>>)

\* lines 1104-1234 for a lyric_url that is not empty
DownloadLyrics(net, lyric_url) ==
    DownloadLyricsLoop(net, lyric_url, 0, 0, FALSE, <<>>, <<>>)

\* ::tolower in the C locale: the letters A-Z, every other character as it is
tolower(c) ==
    CASE c = "C" -> "c" [] c = "E" -> "e" [] c = "H" -> "h" [] c = "I" -> "i"
      [] c = "L" -> "l" [] c = "M" -> "m" [] c = "P" -> "p" [] c = "R" -> "r"
      [] c = "S" -> "s" [] c = "T" -> "t" [] c = "U" -> "u" [] c = "Y" -> "y"
      [] OTHER -> c

\* std::transform(che_do.begin(), che_do.end(), che_do.begin(), ::tolower)
LowerCase(str) == [i \in 1..Len(str) |-> tolower(str[i])]

Word_spectrum == <<"s", "p", "e", "c", "t", "r", "u", "m">>
Word_lyrics == <<"l", "y", "r", "i", "c", "s">>
Word_pho == <<"p", "h", "U+1ED5">>
Word_loi == <<"l", "U+1EDD", "i">>

\* values of the argument che_do
ModeWords ==
    {Word_spectrum, Word_lyrics, Word_pho, Word_loi,
     <<"S", "P", "E", "C", "T", "R", "U", "M">>, <<"S", "p", "e", "c", "t", "r", "u", "m">>, <<"L", "Y", "R", "I", "C", "S">>,
     <<"L", "y", "r", "i", "c">>, <<"P", "H", "U+1ED4">>,
     <<"m", "u", "s", "i", "c">>, <<>>}

\* the tool self.radio.set_display_mode: the result for the lower-cased
\* argument; the lambda captures nothing and calls nothing
SetDisplayModeTool(che_do) ==
    LET lowered == LowerCase(che_do) IN
    IF lowered = Word_spectrum \/ lowered = Word_pho
    THEN [success |-> TRUE, message |-> "spectrum"]
    ELSE IF lowered = Word_lyrics \/ lowered = Word_loi
         THEN [success |-> TRUE, message |-> "lyrics"]
         ELSE [success |-> FALSE, message |-> "invalid"]

FnCalls ==
    {[name |-> "ParseLyrics", arg |-> f, done |-> FALSE, ret |-> <<>>] :
        f \in LyricFiles}
    \cup {[name |-> "SkipId3Tag", arg |-> a, done |-> FALSE, ret |-> <<>>] :
        a \in Id3Inputs}
    \cup {[name |-> "DownmixFrame", arg |-> f, done |-> FALSE, ret |-> <<>>] :
        f \in Frames}
    \cup {[name |-> "ResolveUrl", arg |-> [field |-> f, path |-> p],
           done |-> FALSE, ret |-> <<>>] :
        f \in {"audio_url", "lyric_url"}, p \in UrlPaths}
    \cup {[name |-> "DownloadLyrics", arg |-> net, done |-> FALSE,
           ret |-> <<>>] :
        net \in [1..max_retries -> Answers]}
    \cup {[name |-> "self.radio.set_display_mode", arg |-> che_do,
           done |-> FALSE, ret |-> <<>>] :
        che_do \in ModeWords}

FnInit == StreamInit /\ TitleInit /\ LyricInit /\ fn \in FnCalls

CallParseLyrics ==
    /\ fn.name = "ParseLyrics" /\ ~fn.done
    /\ lyrics_' = ParseLyrics([i \in 1..Len(fn.arg) |-> Render(fn.arg[i])])
    /\ fn' = [fn EXCEPT !.done = TRUE, !.ret = (lyrics_' # <<>>)]
    /\ UNCHANGED <<streamvars, titlevars, response, returned, caller, wait_count, lyric_resolved,
                   display_mode_, is_lyric_running_, lyric_thread_,
                   current_lyric_index_, current_play_time_ms_, lyric_hist,
                   chat_message>>

CallSkipId3Tag ==
    /\ fn.name = "SkipId3Tag" /\ ~fn.done
    /\ fn' = [fn EXCEPT !.done = TRUE,
                        !.ret = SkipId3Tag(fn.arg.data, fn.arg.size)]
    /\ UNCHANGED <<streamvars, titlevars, response, returned, caller, wait_count, lyric_resolved,
                   lyricvars>>

CallDownmixFrame ==
    /\ fn.name = "DownmixFrame" /\ ~fn.done
    /\ fn' = [fn EXCEPT !.done = TRUE, !.ret = DownmixFrame(fn.arg)]
    /\ UNCHANGED <<streamvars, titlevars, response, returned, caller, wait_count, lyric_resolved,
                   lyricvars>>

CallResolveUrl ==
    /\ fn.name = "ResolveUrl" /\ ~fn.done
    /\ fn' = [fn EXCEPT !.done = TRUE,
                        !.ret = IF fn.arg.field = "audio_url"
                                THEN ResolveAudioUrl(fn.arg.path)
                                ELSE ResolveLyricUrl(fn.arg.path)]
    /\ UNCHANGED <<streamvars, titlevars, response, returned, caller, wait_count, lyric_resolved,
                   lyricvars>>

\* DownloadLyrics, with the ParseLyrics call of its last line
CallDownloadLyrics ==
    /\ fn.name = "DownloadLyrics" /\ ~fn.done
    /\ LET r == DownloadLyrics(fn.arg, "lyric_url") IN
       /\ lyrics_' = IF r.parse THEN ParseLyrics(r.lyric_content) ELSE lyrics_
       /\ fn' = [fn EXCEPT !.done = TRUE,
                           !.ret = [attempts |-> r.attempts,
                                    requests |-> r.requests,
                                    parsed |-> r.parse,
                                    result |-> r.parse /\ lyrics_' # <<>>]]
    /\ UNCHANGED <<streamvars, titlevars, response, returned, caller, wait_count, lyric_resolved,
                   display_mode_, is_lyric_running_, lyric_thread_,
                   current_lyric_index_, current_play_time_ms_, lyric_hist,
                   chat_message>>

\* a call of the tool self.radio.set_display_mode
CallSetDisplayModeTool ==
    /\ fn.name = "self.radio.set_display_mode" /\ ~fn.done
    /\ fn' = [fn EXCEPT !.done = TRUE, !.ret = SetDisplayModeTool(fn.arg)]
    /\ UNCHANGED <<streamvars, titlevars, response, returned, caller,
                   wait_count, lyric_resolved, lyricvars>>

FnNext ==
    \/ CallParseLyrics
    \/ CallDownloadLyrics
    \/ CallSkipId3Tag
    \/ CallDownmixFrame
    \/ CallResolveUrl
    \/ CallSetDisplayModeTool

FnSpec == FnInit /\ [][FnNext]_vars

----------------------------------------------------------------------------
(* UpdateLyricDisplay.  current_lyric_index_ keeps the values of the code,
   counted from 0 with -1 for no line; lyrics_[i + 1] is the code's
   lyrics_[i]. *)

\* the for loop of lines 1360-1366 from index i, new_lyric_index being found
RECURSIVE ScanForward(_, _, _, _)
ScanForward(list, current_time_ms, i, found) ==
    IF i < Len(list) /\ list[i + 1][1] <= current_time_ms
    THEN ScanForward(list, current_time_ms, i + 1, i)
    ELSE found

\* a scan that starts after the current line
NewLyricIndexSkipCurrent(list, current, current_time_ms) ==
    ScanForward(list, current_time_ms, current + 1, -1)

\* lines 1354-1366: the scan starts at the current index
NewLyricIndex(list, current, current_time_ms) ==
    ScanForward(list, current_time_ms,
                IF current >= 0 THEN current ELSE 0, -1)

\* display->SetChatMessage("lyric", lyric_text)
SetChatMessage(lyric_text) ==
    chat_message' = [text |-> lyric_text,
                     calls |-> (chat_message.calls + 1) % 2]

\* lines 1380-1384: the text of the line, empty without a line
LyricText(list, index) ==
    IF index >= 0 /\ index < Len(list) THEN list[index + 1][2] ELSE <<>>

\* a function that sends the text at every call
UpdateLyricDisplayAlwaysPush(current_time_ms) ==
    IF lyrics_ = <<>>
    THEN UNCHANGED <<current_lyric_index_, lyric_hist, chat_message>>
    ELSE /\ current_lyric_index_' =
                NewLyricIndex(lyrics_, current_lyric_index_, current_time_ms)
         /\ lyric_hist' = <<lyric_hist[2], current_lyric_index_'>>
         /\ SetChatMessage(LyricText(lyrics_, current_lyric_index_'))

\* the whole function, under lyrics_mutex_; lyric_hist keeps the results of
\* the last two scans
UpdateLyricDisplay(current_time_ms) ==
    IF lyrics_ = <<>>
    THEN UNCHANGED <<current_lyric_index_, lyric_hist, chat_message>>
    ELSE LET new_lyric_index ==
                 NewLyricIndex(lyrics_, current_lyric_index_, current_time_ms)
         IN /\ lyric_hist' = <<lyric_hist[2], new_lyric_index>>
            /\ current_lyric_index_' = new_lyric_index
            /\ IF new_lyric_index # current_lyric_index_
               THEN SetChatMessage(LyricText(lyrics_, new_lyric_index))
               ELSE UNCHANGED chat_message

----------------------------------------------------------------------------
(* UpdateLyricDisplay called with non-decreasing times on a list that
   ParseLyrics has left. *)

MatchLines == {TimedLine(0, 0, 0, <<"a">>), TimedLine(0, 1, 0, <<"b">>),
               TimedLine(0, 2, 0, Hello), TimedLine(0, 1, 0, <<"a">>)}
MaxMatchLines == 3
MatchFiles == UNION {[1..n -> MatchLines] : n \in 0..MaxMatchLines}
QueryTimes == {-100, 0, 999, 1000, 1500, 2000, 2600}

MatchInit ==
    /\ StreamInit /\ TitleInit
    /\ display_mode_ = DISPLAY_MODE_LYRICS
    /\ is_lyric_running_ = FALSE
    /\ lyric_thread_ = "none"
    /\ lyrics_ \in {ParseLyrics(RenderFile(file)) : file \in MatchFiles}
    /\ current_lyric_index_ = -1
    /\ current_play_time_ms_ = 0
    /\ lyric_hist = <<-1, -1>>
    /\ chat_message = NoChatMessage
    /\ fn = [name |-> "UpdateLyricDisplay", arg |-> -100, done |-> FALSE,
             ret |-> <<>>]

CallUpdateLyricDisplay(current_time_ms) ==
    /\ fn.name = "UpdateLyricDisplay"
    /\ current_time_ms >= fn.arg
    /\ UpdateLyricDisplay(current_time_ms)
    /\ fn' = [fn EXCEPT !.arg = current_time_ms, !.done = TRUE]
    /\ UNCHANGED <<streamvars, titlevars, response, returned, caller, wait_count, lyric_resolved,
                   display_mode_, is_lyric_running_, lyric_thread_, lyrics_,
                   current_play_time_ms_>>

MatchNext == \E t \in QueryTimes : CallUpdateLyricDisplay(t)

MatchSpec == MatchInit /\ [][MatchNext]_vars

----------------------------------------------------------------------------
(* The lyric engine over several sessions.  The streaming engine is reduced
   to what the lyric engine reads and to the decoder's frame step:
   StartStreaming stops the previous threads and starts the decoder, the
   decoder sets the play time to 0 and then adds each frame's duration and
   calls UpdateLyricDisplay. *)

MaxSessions == 2
MaxPlayTime == 2000
FrameDurations == {0, 1000}
buffer_latency_ms == 600

SessionFiles ==
    {<<TimedLine(0, 0, 0, <<"a">>), TimedLine(0, 1, 0, <<"b">>),
       TimedLine(0, 2, 0, Hello)>>,
     <<TimedLine(0, 2, 0, <<"b">>), TimedLine(0, 0, 0, Hello)>>,
     <<TimedLine(0, 0, 0, Hello)>>,
     <<TagLine(ArSomeone)>>}

StreamResponses == {resp \in Responses : DownloadOutcome(resp) = "stream"}

\* lyrics_mutex_ is held by the decoder inside UpdateLyricDisplay or by the
\* lyric thread inside ParseLyrics
LyricsMutexFree ==
    /\ \A d \in Decoders : play[d].pc \notin {"lyric_update", "lyric_raced"}
    /\ lyric_thread_ # "parse"

\* Download up to the entry of StartStreaming, which sets both flags false
\* and waits for the previous decoder
SessionBegin(resp) ==
    /\ ctl_pc = "idle"
    /\ starts < MaxSessions
    /\ play[1].pc \in {"none", "init", "decode", "done"}
    /\ starts' = starts + 1
    /\ response' = resp
    /\ returned' = "none"
    /\ is_downloading_' = FALSE
    /\ is_playing_' = FALSE
    /\ play' = [play EXCEPT ![1] = IdlePlay]
    /\ lyric_resolved' = FALSE
    /\ ctl_pc' = "dl_start"
    /\ UNCHANGED <<audio_buffer_, buffer_size_, buffer_cv_, download_thread_,
                   play_thread_, dl, device_state, next_chunk, frees, pops,
                   titlevars, caller, wait_count, lyricvars, fn>>

\* the rest of StartStreaming: both flags true, the new threads
SessionThreads ==
    /\ ctl_pc = "dl_start"
    /\ is_downloading_' = TRUE
    /\ is_playing_' = TRUE
    /\ play' = [play EXCEPT ![1].pc = "init"]
    /\ lyric_hist' = <<-1, -1>>
    /\ ctl_pc' = "dl_lyric"
    /\ UNCHANGED <<audio_buffer_, buffer_size_, buffer_cv_, download_thread_,
                   play_thread_, dl, device_state, next_chunk, frees, pops,
                   starts, titlevars, response, returned, caller, wait_count,
                   lyric_resolved, display_mode_, is_lyric_running_,
                   lyric_thread_, lyrics_, current_lyric_index_,
                   current_play_time_ms_, chat_message, fn>>

\* SetDisplayMode(mode), lines 1397-1404, called between two operations
SetDisplayMode(mode) ==
    /\ ctl_pc = "idle"
    /\ display_mode_ # mode
    /\ display_mode_' = mode
    /\ UNCHANGED <<streamvars, titlevars, response, returned, caller,
                   wait_count, lyric_resolved, is_lyric_running_,
                   lyric_thread_, lyrics_, current_lyric_index_,
                   current_play_time_ms_, lyric_hist, chat_message, fn>>

\* PlayAudioStream, line 697
PlayBegin ==
    /\ play[1].pc = "init"
    /\ current_play_time_ms_' = 0
    /\ play' = [play EXCEPT ![1].pc = "decode"]
    /\ UNCHANGED <<is_downloading_, is_playing_, audio_buffer_, buffer_size_,
                   buffer_cv_, download_thread_, play_thread_, dl, ctl_pc,
                   device_state, next_chunk, frees, pops, starts, titlevars,
                   response, returned, caller, wait_count, lyric_resolved,
                   display_mode_, is_lyric_running_, lyric_thread_, lyrics_,
                   current_lyric_index_, lyric_hist, chat_message, fn>>

\* a decoded frame, lines 883-895, up to the lock at the head of
\* UpdateLyricDisplay (1347)
PlayFrame(frame_duration_ms) ==
    /\ play[1].pc = "decode"
    /\ is_playing_
    /\ current_play_time_ms_ + frame_duration_ms <= MaxPlayTime
    /\ LyricsMutexFree
    /\ current_play_time_ms_' = current_play_time_ms_ + frame_duration_ms
    /\ play' = [play EXCEPT ![1].pc = "lyric_update"]
    /\ UNCHANGED <<is_downloading_, is_playing_, audio_buffer_, buffer_size_,
                   buffer_cv_, download_thread_, play_thread_, dl, ctl_pc,
                   device_state, next_chunk, frees, pops, starts, titlevars,
                   response, returned, caller, wait_count, lyric_resolved,
                   display_mode_, is_lyric_running_, lyric_thread_, lyrics_,
                   current_lyric_index_, lyric_hist, chat_message, fn>>

\* UpdateLyricDisplay(current_play_time_ms_ + buffer_latency_ms) under the
\* lock.  When the list was cleared under it the call runs on a vector that
\* another thread has modified: it goes on with what it now finds, or the
\* thread faults
PlayLyricUpdate ==
    /\ play[1].pc \in {"lyric_update", "lyric_raced"}
    /\ \/ /\ UpdateLyricDisplay(current_play_time_ms_ + buffer_latency_ms)
          /\ play' = [play EXCEPT ![1].pc = "decode"]
       \/ /\ play[1].pc = "lyric_raced"
          /\ play' = [play EXCEPT ![1].pc = "fault"]
          /\ UNCHANGED <<current_lyric_index_, lyric_hist, chat_message>>
    /\ UNCHANGED <<is_downloading_, is_playing_, audio_buffer_, buffer_size_,
                   buffer_cv_, download_thread_, play_thread_, dl, ctl_pc,
                   device_state, next_chunk, frees, pops, starts, titlevars,
                   response, returned, caller, wait_count, lyric_resolved,
                   display_mode_, is_lyric_running_, lyric_thread_, lyrics_,
                   current_play_time_ms_, fn>>

\* the decoder leaves its loop, lines 982-1006
PlayEnd ==
    /\ play[1].pc = "decode"
    /\ is_playing_' = FALSE
    /\ play' = [play EXCEPT ![1].pc = "done"]
    /\ UNCHANGED <<is_downloading_, audio_buffer_, buffer_size_, buffer_cv_,
                   download_thread_, play_thread_, dl, ctl_pc, device_state,
                   next_chunk, frees, pops, starts, titlevars, response,
                   returned, caller, wait_count, lyric_resolved, lyricvars, fn>>

\* LyricDisplayThread: DownloadLyrics has failed
LyricDownloadFails ==
    /\ lyric_thread_ = "download"
    /\ is_lyric_running_' = FALSE
    /\ lyric_thread_' = "done"
    /\ UNCHANGED <<streamvars, titlevars, response, returned, caller,
                   wait_count, lyric_resolved, display_mode_, lyrics_,
                   current_lyric_index_, current_play_time_ms_, lyric_hist,
                   chat_message, fn>>

\* LyricDisplayThread: DownloadLyrics has got the file and calls ParseLyrics,
\* which takes the lock and clears the list (1242-1244)
LyricParseBegin ==
    /\ lyric_thread_ = "download"
    /\ LyricsMutexFree
    /\ lyrics_' = <<>>
    /\ lyric_thread_' = "parse"
    /\ UNCHANGED <<streamvars, titlevars, response, returned, caller,
                   wait_count, lyric_resolved, display_mode_,
                   is_lyric_running_, current_lyric_index_,
                   current_play_time_ms_, lyric_hist, chat_message, fn>>

\* ParseLyrics fills and sorts the list and releases the lock; an empty list
\* makes DownloadLyrics return false
LyricDownloadParses(file) ==
    /\ lyric_thread_ = "parse"
    /\ lyrics_' = ParseLyrics(RenderFile(file))
    /\ IF lyrics_' = <<>>
       THEN is_lyric_running_' = FALSE /\ lyric_thread_' = "done"
       ELSE lyric_thread_' = "poll" /\ UNCHANGED is_lyric_running_
    /\ UNCHANGED <<streamvars, titlevars, response, returned, caller,
                   wait_count, lyric_resolved, display_mode_,
                   current_lyric_index_, current_play_time_ms_, lyric_hist,
                   chat_message, fn>>

\* LyricDisplayThread: while (is_lyric_running_ && is_playing_) ends
LyricPollEnds ==
    /\ lyric_thread_ = "poll"
    /\ ~(is_lyric_running_ /\ is_playing_)
    /\ lyric_thread_' = "done"
    /\ UNCHANGED <<streamvars, titlevars, response, returned, caller,
                   wait_count, lyric_resolved, display_mode_,
                   is_lyric_running_, lyrics_, current_lyric_index_,
                   current_play_time_ms_, lyric_hist, chat_message, fn>>

LyricDisplayThread ==
    \/ LyricDownloadFails
    \/ LyricParseBegin
    \/ \E file \in SessionFiles : LyricDownloadParses(file)
    \/ LyricPollEnds

DisplayModes == {DISPLAY_MODE_SPECTRUM, DISPLAY_MODE_LYRICS}

LyricNext ==
    \/ \E resp \in StreamResponses : SessionBegin(resp)
    \/ SessionThreads
    \/ DownloadLyricPart
    \/ DownloadLyricJoin
    \/ \E mode \in DisplayModes : SetDisplayMode(mode)
    \/ PlayBegin
    \/ \E frame_duration_ms \in FrameDurations : PlayFrame(frame_duration_ms)
    \/ PlayLyricUpdate
    \/ PlayEnd
    \/ LyricDisplayThread

LyricSpec == Init /\ [][LyricNext]_vars

----------------------------------------------------------------------------
(* Properties *)

InQueue(c) == \E i \in 1..Len(audio_buffer_) : audio_buffer_[i].id = c
DownloaderExited == dl.pc \in {"none", "done"}

\* C1: in every reachable state buffer_size_ is the sum of the sizes of the
\* chunks queued in audio_buffer_, and so never negative.
C1_SizeIsSum ==
    /\ buffer_size_ = SumSizes(audio_buffer_)
    /\ buffer_size_ >= 0

\* chunks are queued after an earlier chunk was popped
C1_Witness ==
    /\ Len(audio_buffer_) >= 1
    /\ buffer_size_ >= 2
    /\ \E c \in ChunkIds : pops[c] = 1

\* C2: the byte total never exceeds MAX_BUFFER_SIZE.
C2_WithinCapacity == buffer_size_ <= MAX_BUFFER_SIZE

\* C3: chunks leave the queue in the order they entered it (identities are
\* given in push order): the queue is ordered, no chunk is popped while an
\* older one is still queued, and no chunk is popped twice.
C3_Fifo ==
    /\ \A i, j \in 1..Len(audio_buffer_) :
          i < j => audio_buffer_[i].id < audio_buffer_[j].id
    /\ \A a, b \in ChunkIds : (a < b /\ pops[b] > 0) => ~InQueue(a)
    /\ \A c \in ChunkIds : pops[c] <= 1 /\ (InQueue(c) => pops[c] = 0)

\* two chunks of one session have both been popped
C3_Witness == pops[1] = 1 /\ pops[2] = 1 /\ starts = 1

\* C4: a chunk's buffer is freed at most once, and no thread or queue entry
\* that can still read it refers to a freed buffer.
C4_FreedOnce ==
    /\ \A c \in ChunkIds : frees[c] <= 1 /\ (InQueue(c) => frees[c] = 0)
    /\ dl.chunk # NoChunk => frees[dl.chunk.id] = 0
    /\ \A d \in Decoders :
          play[d].chunk # NoChunk => frees[play[d].chunk.id] = 0

\* after teardown: one chunk freed by a decoder that popped it, another freed
\* without having been popped (by the downloader or by ClearAudioBuffer)
C4_Witness ==
    /\ ctl_pc = "destroyed"
    /\ \E a, b \in ChunkIds :
          /\ frees[a] = 1 /\ pops[a] = 1
          /\ frees[b] = 1 /\ pops[b] = 0

\* C5: every chunk that is enqueued is eventually freed, by the decoder or by
\* a buffer clear.
C5_NoLeak == \A c \in ChunkIds : InQueue(c) ~> (frees[c] >= 1)

\* C6: a call to StopStreaming always completes.
C6_StopReturns ==
    (ctl_pc \in {"stop_join_dl", "stop_wait_play"}) ~> (ctl_pc = "idle")

\* both flags are false and StopStreaming or the destructor has broadcast
Cancelled ==
    /\ ~is_downloading_ /\ ~is_playing_
    /\ ctl_pc \in {"stop_join_dl", "stop_wait_play", "dtor_join_dl",
                    "dtor_join_play"}

\* C7: once the flags are false and the condition variable was broadcast, a
\* worker in a buffer wait eventually exits (unless a new session starts).
C7_CancelReachesWaits ==
    /\ (Cancelled /\ dl.pc = "push")
         ~> (DownloaderExited \/ is_downloading_ \/ is_playing_)
    /\ \A d \in Decoders :
         (Cancelled /\ play[d].pc \in {"prebuf", "pop_wait"})
         ~> (Terminated(d) \/ is_downloading_ \/ is_playing_)

\* C8: AddAudioData is called only while the device state is idle: every step
\* that hands a packet to the output queue happens in an idle state.
C8_EmitOnlyWhileIdle ==
    [][\A d \in Decoders :
         (play[d].pc = "emit" /\ play'[d].pc # "emit")
         => device_state = kDeviceStateIdle]_vars

InGateWait(d) == play[d].pc \in {"gate_toggle", "gate_wait"}

C10_DecoderDrains ==
    \A d \in Decoders :
        (dl.pc = "done" /\ is_playing_ /\ ~Terminated(d) /\ ctl_pc = "idle")
        ~> ((Terminated(d) /\ ~is_playing_)
            \/ dl.pc # "done" \/ ctl_pc # "idle"
            \/ device_state # kDeviceStateIdle)

\* C11: StartStreaming creates its threads only after every downloader and
\* decoder thread of the earlier sessions has returned, so at most one
\* decoder thread runs at any time.
C11_PriorThreadsGone ==
    /\ ctl_pc \in {"start_download", "start_play"}
         => \A d \in Decoders : Terminated(d)
    /\ ctl_pc = "start_download" => DownloaderExited
    /\ Cardinality({d \in Decoders : ~Terminated(d)}) <= 1

\* C14: the destructor completes: its waits for the downloader and for the
\* decoder end.
C14_TeardownCompletes ==
    (ctl_pc \in {"dtor_join_dl", "dtor_join_play"}) ~> (ctl_pc = "destroyed")

\* the failures of the metadata request that the claim lists
Failure(resp) ==
    \/ ~resp.open
    \/ resp.status # 200
    \/ resp.body.sentinel
    \/ resp.body.json \in {"empty", "malformed"}
    \/ resp.body.audio_url \in {"missing", ""}

\* a step of the controller inside Download, before StartStreaming
DownloadStep ==
    /\ ctl_pc' # ctl_pc
    /\ ctl_pc \in {"dl_request", "dl_parse"} \/ ctl_pc' = "dl_request"

\* C12: a Download whose metadata request fails returns false, and none of
\* its steps changes the three flags or creates or joins a thread.
C12_FailedDownloadStartsNothing ==
    [][(DownloadStep /\ (ctl_pc = "dl_parse" => Failure(response)))
        => /\ UNCHANGED <<is_downloading_, is_playing_, is_lyric_running_,
                          download_thread_, play_thread_, lyric_thread_, dl,
                          play>>
           /\ ctl_pc = "dl_parse"
                => ctl_pc' = "idle" /\ returned' = "download_false"]_vars

\* a Download has returned false while a session was playing
C12_Witness == returned = "download_false" /\ is_playing_ /\ is_downloading_

\* C13: after StopStreaming has returned no title is displayed.
C13_NoTitleAfterStop == returned = "stop" => music_info = ""

\* C17: ParseLyrics turns a file of the single line [mm:ss.xx]text, with a
\* text that is not empty, into the one entry
\* (mm*60000 + ss*1000 + xx*10, text), and a file of the single line
\* [ar:Someone] into no entry.
C17_LineMapsToTimestamp ==
    (fn.name = "ParseLyrics" /\ fn.done /\ Len(fn.arg) = 1) =>
        LET l == fn.arg[1] IN
        /\ (l.kind = "timed" /\ l.text \in {<<"a">>, <<"b">>, Hello}) =>
               lyrics_ = << <<l.mm * 60000 + l.ss * 1000 + l.xx * 10,
                              l.text>> >>
        /\ (l = TagLine(ArSomeone)) => lyrics_ = <<>>

\* the value of four size bytes, seven bits each, most significant first
SynchsafeValue(bytes) ==
    (bytes[1] % 128) * Pow(128, 3) + (bytes[2] % 128) * Pow(128, 2)
    + (bytes[3] % 128) * 128 + (bytes[4] % 128)

\* C19: SkipId3Tag returns 0 when there are fewer than 10 bytes or the data
\* does not begin with "ID3", and otherwise the smaller of 10 + S and size,
\* S being the synchsafe value of bytes 6..9.
C19_SkipId3Tag ==
    (fn.name = "SkipId3Tag" /\ fn.done) =>
        LET data == fn.arg.data
            size == fn.arg.size
        IN IF size < 10 \/ data[1] # 73 \/ data[2] # 68 \/ data[3] # 51
           THEN fn.ret = 0
           ELSE LET S == SynchsafeValue(SubSeq(data, 7, 10))
                IN /\ 10 + S <= size => fn.ret = 10 + S
                   /\ 10 + S > size => fn.ret = size

\* the size bytes 00 00 02 01 with 267 bytes at hand: 267 bytes are skipped;
\* the same tag in a buffer of 266 bytes is the clamped case
C19_Witness ==
    /\ fn.name = "SkipId3Tag" /\ fn.done
    /\ fn.arg.size = 267 /\ fn.ret = 267
    /\ SubSeq(fn.arg.data, 1, 3) = <<73, 68, 51>>
    /\ SubSeq(fn.arg.data, 7, 10) = <<0, 0, 2, 1>>

\* q is (a + b) / 2 truncated toward zero
IsTruncatedMean(q, a, b) ==
    \/ 2 * q = a + b
    \/ a + b > 0 /\ 2 * q = a + b - 1
    \/ a + b < 0 /\ 2 * q = a + b + 1

\* what the frame step sends on: for two channels the truncated means of
\* the pairs, for any other channel count the samples as they are
SentOnAsStated ==
    LET frame == fn.arg
        out == fn.ret
    IN /\ ~out.rejected
       /\ IF frame.nChans = 2
          THEN /\ Len(out.pcm) = frame.outputSamps \div 2
               /\ \A i \in 1..Len(out.pcm) :
                      IsTruncatedMean(out.pcm[i], frame.pcm_buffer[2 * i - 1],
                                      frame.pcm_buffer[2 * i])
          ELSE out.pcm = frame.pcm_buffer

\* C20 as stated: every frame, whatever its channel count, is sent on, mixed
\* down when it has two channels and unchanged otherwise.
C20_DownmixAnyChannelCount ==
    (fn.name = "DownmixFrame" /\ fn.done) => SentOnAsStated

\* C20: a frame whose sample rate and channel count are not zero is sent on,
\* mixed down to the truncated means when it has two channels and unchanged
\* otherwise; a frame whose sample rate or channel count is zero is skipped.
C20_DownmixValidFrame ==
    (fn.name = "DownmixFrame" /\ fn.done) =>
        IF fn.arg.samprate # 0 /\ fn.arg.nChans # 0
        THEN SentOnAsStated
        ELSE fn.ret.rejected /\ ~fn.ret.emitted

\* a stereo frame whose pair has an odd negative sum: -201 / 2 is -100
C20_Witness ==
    /\ fn.name = "DownmixFrame" /\ fn.done
    /\ fn.arg.nChans = 2 /\ fn.arg.samprate # 0
    /\ fn.arg.pcm_buffer = <<-101, -100>>
    /\ fn.ret.pcm = <<-100>>

\* C15: within one session the index that UpdateLyricDisplay leaves is never
\* smaller than the one its previous scan of the session left.
C15_IndexNeverRegresses == lyric_hist[2] >= lyric_hist[1]

\* the index of the last line of the list whose timestamp is at most t,
\* counted from 0, and -1 when there is none
FullScan(list, t) ==
    LET at_most == {i \in 1..Len(list) : list[i][1] <= t}
    IN IF at_most = {} THEN -1
       ELSE (CHOOSE i \in at_most : \A j \in at_most : j <= i) - 1

\* C16: after every call of a sequence with non-decreasing times on a fixed
\* sorted list, the index is the one a scan of the whole list gives.
C16_ForwardScanIsFullScan ==
    (fn.name = "UpdateLyricDisplay" /\ fn.done) =>
        current_lyric_index_ = FullScan(lyrics_, fn.arg)

\* lines at 0, 1000 and 2000 ms, time 1500 after an earlier call: the line
\* of 1000 ms
C16_Witness ==
    /\ fn.name = "UpdateLyricDisplay" /\ fn.done /\ fn.arg = 1500
    /\ Len(lyrics_) = 3
    /\ lyrics_[1][1] = 0 /\ lyrics_[2][1] = 1000 /\ lyrics_[3][1] = 2000
    /\ lyric_hist = <<0, 1>>
    /\ current_lyric_index_ = 1

\* the timestamps of the list ascend
Sorted(list) ==
    \A i \in 1..Len(list) : \A j \in i..Len(list) : list[i][1] <= list[j][1]

\* C18: the list that ParseLyrics leaves is sorted by timestamp whatever the
\* order of the lines, and it is sorted whenever UpdateLyricDisplay reads it.
C18_LyricsSorted == Sorted(lyrics_)

\* a file whose lines were out of order has been parsed, and
\* UpdateLyricDisplay has matched its second line
C18_Witness ==
    /\ Len(lyrics_) = 2
    /\ lyrics_[1][2] = Hello /\ lyrics_[2][2] = <<"b">>
    /\ current_lyric_index_ = 1
    /\ lyric_hist[2] = 1

\* C29: two lines with the same timestamp are in the list in the order they
\* had in the file.
C29_EqualTimestampsKeepOrder ==
    (fn.name = "ParseLyrics" /\ fn.done /\ Len(fn.arg) = 2) =>
        LET first == fn.arg[1]
            second == fn.arg[2]
        IN \/ ~(/\ first.kind = "timed" /\ second.kind = "timed"
                 /\ first.text \in {<<"a">>, <<"b">>, Hello}
                 /\ second.text \in {<<"a">>, <<"b">>, Hello}
                 /\ <<first.mm, first.ss, first.xx>>
                      = <<second.mm, second.ss, second.xx>>)
           \/ /\ Len(lyrics_) = 2
              /\ lyrics_[1][2] = first.text
              /\ lyrics_[2][2] = second.text

\* C30: a file of the single line [mm:ss.xx] with nothing after the bracket
\* gives the list of one entry with the empty text.
C30_EmptyTextIsKept ==
    (/\ fn.name = "ParseLyrics" /\ fn.done /\ Len(fn.arg) = 1
     /\ fn.arg[1].kind = "timed" /\ fn.arg[1].text = <<>>) =>
        Len(lyrics_) = 1 /\ lyrics_[1][2] = <<>>

\* str begins with http:// or https://
IsAbsoluteUrl(str) ==
    \/ Len(str) >= 7 /\ \A i \in 1..7 : str[i] = HttpPrefix[i]
    \/ Len(str) >= 8 /\ \A i \in 1..8 : str[i] = HttpsPrefix[i]

\* C21: an audio_url or lyric_url that begins with http:// or https:// is
\* used unchanged; every other value, with or without radio_proxy.php in it,
\* becomes the API base followed by the value.
C21_UrlResolution ==
    (fn.name = "ResolveUrl" /\ fn.done) =>
        IF IsAbsoluteUrl(fn.arg.path)
        THEN fn.ret = fn.arg.path
        ELSE /\ Len(fn.ret) = Len(base_url) + Len(fn.arg.path)
             /\ SubSeq(fn.ret, 1, Len(base_url)) = base_url
             /\ SubSeq(fn.ret, Len(base_url) + 1, Len(fn.ret)) = fn.arg.path

\* a relative audio_url that holds the proxy marker has been resolved
C21_Witness ==
    /\ fn.name = "ResolveUrl" /\ fn.done
    /\ fn.arg.field = "audio_url"
    /\ ~IsAbsoluteUrl(fn.arg.path)
    /\ Contains(fn.arg.path, ProxyMarker)
    /\ fn.ret = base_url \o fn.arg.path

\* C27: a call of UpdateLyricDisplay that leaves the index as it was, or
\* finds the list empty, changes neither the index nor the display; a call
\* that changes the index sends the text of the new line, once.
C27_PushOnlyOnIndexChange ==
    [][/\ (lyrics_ = <<>>) =>
              UNCHANGED <<current_lyric_index_, chat_message>>
       /\ (current_lyric_index_' = current_lyric_index_) =>
              UNCHANGED chat_message
       /\ (current_lyric_index_' # current_lyric_index_) =>
              /\ chat_message'.calls # chat_message.calls
              /\ current_lyric_index_' >= 0
              /\ chat_message'.text
                   = lyrics_[current_lyric_index_' + 1][2]]_vars

\* the second line is shown and a later call has found the same line
C27_Witness ==
    /\ fn.name = "UpdateLyricDisplay" /\ fn.done
    /\ lyric_hist = <<1, 1>>
    /\ current_lyric_index_ = 1
    /\ chat_message = [text |-> <<"b">>, calls |-> 0]

\* an attempt that the claim counts as failed
FailedAttempt(a) ==
    \/ ~a.client
    \/ ~a.open
    \/ a.status < 200 \/ a.status > 299
    \/ a.read = "error"

\* C28: a lyric fetch makes at most 3 attempts, every request goes to the
\* lyric URL, each failed attempt counts once, and after 3 failed attempts
\* the function returns false and has parsed nothing.
C28_ThreeAttemptsSameUrl ==
    (fn.name = "DownloadLyrics" /\ fn.done) =>
        LET net == fn.arg
            good == {i \in 1..3 : ~FailedAttempt(net[i])}
        IN /\ Len(fn.ret.requests) <= 3
           /\ \A i \in 1..Len(fn.ret.requests) :
                  fn.ret.requests[i] = "lyric_url"
           /\ IF good = {}
              THEN /\ fn.ret.attempts = 3
                   /\ ~fn.ret.result /\ ~fn.ret.parsed /\ lyrics_ = <<>>
              ELSE \E k \in good :
                      /\ \A j \in good : k <= j
                      /\ fn.ret.attempts = k

\* a redirect, a 404 and an open failure: three requests, then false
C28_Witness ==
    /\ fn.name = "DownloadLyrics" /\ fn.done
    /\ fn.arg[1].status = 301 /\ fn.arg[2].status = 404 /\ ~fn.arg[3].open
    /\ fn.arg[3].client
    /\ fn.ret.requests = <<"lyric_url", "lyric_url", "lyric_url">>
    /\ ~fn.ret.result

\* C26: when no sync word is found the residual becomes 0, and when a frame
\* fails to decode the residual goes down by one byte (to 0 when at most one
\* byte was left); both leave the playing flag alone and go back to the head
\* of the loop.
C26_DecodeErrorsRecovered ==
    [][\A d \in Decoders :
          (play[d].pc \in {"no_sync", "decode_failed"} /\ play'[d] # play[d])
          => /\ play'[d].pc = "loop"
             /\ is_playing_' = is_playing_
             /\ play[d].pc = "no_sync" => play'[d].bytes_left = 0
             /\ (play[d].pc = "decode_failed" /\ play[d].bytes_left > 1)
                  => play'[d].bytes_left = play[d].bytes_left - 1
             /\ (play[d].pc = "decode_failed" /\ play[d].bytes_left <= 1)
                  => play'[d].bytes_left = 0]_vars

\* MP3Decode has failed with several bytes left while the session plays
C26_Witness ==
    \E d \in Decoders :
        /\ play[d].pc = "decode_failed" /\ play[d].bytes_left >= 2
        /\ is_playing_

\* C25: while the session plays, the loop head asks for ToggleChatState
\* exactly when the observed device state is listening or speaking, only
\* waits in every other non-idle state, and in both cases the iteration goes
\* back to the loop head without popping a chunk, decoding or advancing the
\* play time.
C25_IdleGate ==
    [][\A d \in Decoders :
          LET Busy == device_state # kDeviceStateIdle
              Toggles == device_state \in {kDeviceStateListening,
                                           kDeviceStateSpeaking}
              NothingConsumed ==
                  /\ audio_buffer_' = audio_buffer_
                  /\ buffer_size_' = buffer_size_
                  /\ pops' = pops
                  /\ play'[d].bytes_left = play[d].bytes_left
                  /\ current_play_time_ms_' = current_play_time_ms_
          IN  /\ (play[d].pc = "loop" /\ is_playing_ /\ play'[d] # play[d])
                 => /\ Toggles <=> play'[d].pc = "gate_toggle"
                    /\ (Busy /\ ~Toggles) <=> play'[d].pc = "gate_wait"
                    /\ Busy => NothingConsumed
              /\ (play[d].pc \in {"gate_toggle", "gate_wait"}
                    /\ play'[d] # play[d])
                 => /\ play'[d].pc = "loop"
                    /\ NothingConsumed]_vars

\* the toggle was asked for while a chunk was waiting in the queue
C25_Witness ==
    \E d \in Decoders :
        /\ play[d].pc = "gate_toggle" /\ is_playing_
        /\ device_state \in {kDeviceStateListening, kDeviceStateSpeaking}
        /\ buffer_size_ > 0

\* C23: whichever way the downloader leaves (invalid URL, open failure, bad
\* status, read error, end of stream, allocation failure, cancellation), the
\* step that ends it clears the downloading flag and wakes every thread
\* waiting on the condition variable.
C23_EveryExitClearsAndWakes ==
    [][(dl.pc # "done" /\ dl'.pc = "done")
        => (~is_downloading_' /\ buffer_cv_' = {})]_vars

\* StopStreaming will poll the decoder once more
StopPolling == ctl_pc = "stop_wait_play" /\ play_thread_ # 0 /\ StopPollAgain

\* C24: StopStreaming joins a decoder that has finished within the bounded
\* wait: a poll round that finds the decoder finished is the last one, the
\* join follows it, and only a decoder still running at the ceiling is
\* detached.
C24_FinishedDecoderEndsTheWait ==
    [][(StopPolling /\ Terminated(play_thread_)
          /\ wait_count' = wait_count + 1)
        => ~StopPolling']_vars

\* C22: the downloader's push starts to wait only when the byte total is at
\* or above the capacity and the downloading flag is true, and enqueues only
\* when the total is below the capacity; when it gets through with the flag
\* false the chunk is not enqueued, the byte total is unchanged, the
\* downloader frees the chunk itself and leaves its loop.
C22_PushWaitsAndCancels ==
    [][/\ (DL \notin buffer_cv_ /\ DL \in buffer_cv_')
          => (buffer_size_ >= MAX_BUFFER_SIZE /\ is_downloading_)
       /\ (dl.pc = "push" /\ dl'.pc = "loop")
          => /\ buffer_size_ < MAX_BUFFER_SIZE /\ is_downloading_
             /\ audio_buffer_' = Append(audio_buffer_, dl.chunk)
       /\ (dl.pc = "push" /\ dl'.pc # "push" /\ ~is_downloading_)
          => /\ audio_buffer_' = audio_buffer_
             /\ buffer_size_' = buffer_size_
             /\ frees'[dl.chunk.id] = frees[dl.chunk.id] + 1
             /\ dl'.pc = "close"]_vars

\* the downloader was let through a full queue by the cancellation and has
\* freed the chunk it held
C22_Witness ==
    /\ dl.pc = "close" /\ ~is_downloading_
    /\ buffer_size_ >= MAX_BUFFER_SIZE
    /\ \E c \in ChunkIds : frees[c] = 1 /\ pops[c] = 0 /\ ~InQueue(c)

\* C39: when the destructor clears the chunk buffer and frees the MP3
\* decoder, every worker that was ever started has returned, a decoder that
\* an earlier StopStreaming detached included.
C39_TeardownAfterEveryWorker ==
    [][(ctl_pc # "destroyed" /\ ctl_pc' = "destroyed")
        => /\ \A d \in Decoders : Terminated(d)
           /\ DownloaderExited]_vars

\* C35: the decoder's residual stays within the working buffer, and the fill
\* step copies the whole popped chunk: the room left in the working buffer is
\* never smaller than the chunk.
C35_FillCopiesWholeChunk ==
    \A d \in Decoders :
        /\ play[d].bytes_left \in 0..mp3_input_buffer_size
        /\ play[d].pc = "copy"
           => /\ play[d].chunk.size \in 1..chunk_size
              /\ play[d].bytes_left < fill_threshold
              /\ Min(play[d].chunk.size,
                     mp3_input_buffer_size - play[d].bytes_left)
                   = play[d].chunk.size

\* a full-size chunk was popped while bytes of the previous one were left
C35_Witness ==
    \E d \in Decoders :
        /\ play[d].pc = "copy"
        /\ play[d].bytes_left > 0
        /\ play[d].chunk.size = chunk_size

\* C36: when the decoder of a session that was not cancelled leaves its loop
\* because the downloader has finished and the queue is empty, no undecoded
\* bytes are left in its working buffer.
C36_NothingLeftAtEndOfStream ==
    [][\A d \in Decoders :
          (play[d].pc \in {"pop", "pop_wait"} /\ play'[d].pc = "exit"
             /\ is_playing_ /\ ~is_downloading_ /\ dl.pc = "done"
             /\ audio_buffer_ = <<>>)
          => play[d].bytes_left = 0]_vars

\* the decoder of the running session sleeps in one of its waits for data
DecoderWaitsForData ==
    /\ play_thread_ # 0
    /\ play_thread_ \in buffer_cv_
    /\ play[play_thread_].pc \in {"prebuf", "pop_wait"}

\* C38: no state is reachable in which both flags are true, the downloader
\* is blocked waiting for space and the decoder is blocked waiting for data.
C38_NoMutualWait ==
    ~(is_downloading_ /\ is_playing_ /\ DL \in buffer_cv_
        /\ DecoderWaitsForData)

\* the session's decoder has returned by itself: codec unavailable, decoder
\* not initialised or no memory for the working buffer
DecoderGaveUp ==
    /\ play_thread_ # 0 /\ play[play_thread_].pc = "done"
    /\ ~is_playing_ /\ is_downloading_ /\ ctl_pc = "idle"

\* C37: once the decoder has returned by itself while the downloader runs,
\* the downloader eventually returns too, with the downloading flag cleared,
\* unless StopStreaming or StartStreaming is called.
C37_DownloaderFollowsDecoder ==
    DecoderGaveUp ~> ((dl.pc = "done" /\ ~is_downloading_) \/ ctl_pc # "idle")

\* C32: Download never assigns a new thread to lyric_thread_ while it still
\* holds a joinable thread, which would call std::terminate.
C32_LyricThreadJoinedBeforeRestart == ctl_pc # "terminate"

\* a non-empty lyric line is sent to the display
LyricLinePushed ==
    chat_message' # chat_message /\ chat_message'.text # <<>>

\* C34: once Download has returned, a lyric line is sent to the display only
\* when Download resolved a lyric URL for the running session; a session
\* without one never shows the lines of an earlier track.
C34_LinesOfThisSessionOnly ==
    [][(ctl_pc = "idle" /\ LyricLinePushed) => lyric_resolved]_vars

\* Download returns true in this step
DownloadSucceeds == returned # "download_true" /\ returned' = "download_true"

\* a new lyric thread is created in this step
LyricThreadStarted == lyric_thread_ # "download" /\ lyric_thread_' = "download"

LyricListInUse ==
    \/ \E d \in Decoders : play[d].pc = "lyric_update"
    \/ lyric_thread_ = "parse"

\* C33: Download never empties a list that holds lines while the decoder is
\* inside UpdateLyricDisplay or the lyric thread inside ParseLyrics.
C33_NoClearUnderReader ==
    [][(ctl_pc \in {"dl_lyric", "dl_lyric_join"}
          /\ lyrics_ # <<>> /\ lyrics_' = <<>>)
       => ~LyricListInUse]_vars

\* the tool has answered the call with this argument
ToolAnswered(che_do) ==
    /\ fn.name = "self.radio.set_display_mode" /\ fn.done
    /\ fn.arg = che_do

\* C40: when the tool self.radio.set_display_mode reports success for
\* 'spectrum' or 'lyrics', the display mode of the engine is that mode; for
\* an invalid value it reports failure and the mode is the one before the
\* call.
C40_ToolSetsTheMode ==
    /\ (ToolAnswered(Word_spectrum) /\ fn.ret.success)
       => display_mode_ = DISPLAY_MODE_SPECTRUM
    /\ (ToolAnswered(Word_lyrics) /\ fn.ret.success)
       => display_mode_ = DISPLAY_MODE_LYRICS
    /\ \A che_do \in ModeWords :
          (ToolAnswered(che_do)
             /\ LowerCase(che_do)
                  \notin {Word_spectrum, Word_lyrics, Word_pho, Word_loi})
          => ~fn.ret.success /\ display_mode_ = DISPLAY_MODE_LYRICS

====
